---- MODULE Spec2Model ----
(***************************************************************************)
(* Two-phase self-delete (platform/selfdelete_windows.go,                  *)
(* installer/selfdelete.go) and the residual temp-directory scanner.       *)
(*                                                                         *)
(* Processes: per session a first-phase process (RunFirstPhase) and the    *)
(* second-phase process it spawns (RunSecondPhase); one scanner process    *)
(* (CleanupResidualTempDirs).  Shared state: the temp directories, their   *)
(* two files, the open handles, the original executables, the clock.       *)
(*                                                                         *)
(* File sharing.  Every handle this code opens is opened WITHOUT           *)
(* FILE_SHARE_DELETE (selfdelete_windows.go:291, 405, 435), and the source *)
(* states the rule it relies on (398-399, 429-430): while such a handle is *)
(* open, any other open of the same path that asks for DELETE access fails *)
(* with ERROR_SHARING_VIOLATION.  os.Remove deletes by path, i.e. through  *)
(* a fresh DELETE open, so the rule is applied to it as well, whichever    *)
(* process holds the handle.  A running executable image cannot be removed *)
(* or overwritten by path either (the reason the protocol exists).         *)
(***************************************************************************)
EXTENDS Integers, FiniteSets, Sequences, TLC

\* ---------------------------------------------------------------- bounds
\* the values hex.EncodeToString(buf) can take in createUniqueTempDir
NumSuffixes == 2
\* the clock stops here
MaxNow == 6
\* longest os.Args[1:] a process is started with
MaxArgs == 2
\* largest window handle createSignalWindow returns
MaxWnd == 12
\* longest list of steps handed to RunSteps
MaxSteps == 3
\* processes that call AcquireSingleInstance with one name
NumProcs == 2
\* lock files created in all (os.OpenFile with O_CREATE)
MaxFiles == 3

\* isOlderThan5Minutes: threshold = 5 minutes; the model's clock counts minutes.
threshold == 5

\* self-delete sessions: one per original executable
Sessions == {1, 2}
Suffixes == 1..NumSuffixes
\* processes running CleanupResidualTempDirs (installers at startup)
Scanners == {1, 2}
None == 0

VARIABLES
    now,        \* system clock, minutes
    dirs,       \* temp directories: [exists, exe, marker, mtime] per suffix
    orig,       \* original executable: "present" | "unlinked" | "renamed" | "gone"
    sched,      \* renamed original scheduled for delete-on-reboot
    pc1,        \* first-phase position in RunFirstPhase
    tempDir,    \* first phase: tempDir (suffix), None before createUniqueTempDir
    procHandle, \* first phase: processHandle # 0
    signalRcvd, \* first phase: result of waitForSignalOrProcessDeath
    msg,        \* wmUser pending in the first phase's message queue
    pc2,        \* second-phase position in RunSecondPhase
    doneHandle, \* second phase: CreateDoneSignalFile returned a handle # 0
    deleted,    \* second phase: local deleted
    renamedPath,\* second phase: renamedPath # ""
    p1Handle,   \* second phase: processHandle # 0 in SignalFirstPhaseAndWait
    sent,       \* history: sendNotifyMessage(wnd, wmUser) was called
    installGone,\* install directory removed
    pcK,        \* scanner position in CleanupResidualTempDirs
    kTodo,      \* scanner: directories of the Glob result not yet visited
    kDir,       \* scanner: dirHandle open on this directory (None: no handle)
    kDone,      \* scanner: doneHandle open on the marker of kDir
    kInfo,      \* scanner: info.LastWriteTime
    handover,   \* command line between the phases: [pc, osArgs, selfPath, wnd,
                \*   args, childArgs, config] (RunFirstPhase 135-165,
                \*   GetSecondPhaseConfig); "off" when not running
    elevation,  \* EnsureElevated / IsElevated: [pc, osArgs, env, ret, child,
                \*   prompts]; "off" when not running
    deElevation,\* LaunchDeElevated: [pc, env, tried, ret]; "off" when not running
    session,    \* LaunchAsSessionUser: [pc, account, calls, task, child, running,
                \*   started, verified, clock, ret]; "off" when not running
    steps,      \* RunSteps: [pc, work, list, returnCancelled, i, execErr,
                \*   progressCancelled, responseCh, quit, result, ret]; "off" when
                \*   not running
    instance,   \* AcquireSingleInstance: [platform, pc, ok, handle, file, lockPath,
                \*   flock, created]; "off" when not running
    residual,   \* one call of CleanupResidualTempDirs with its list, counter and
                \*   deadline: [pc, n, checked, expired, selfExe, dir, before, ret];
                \*   "off" when not running
    progress    \* progress file between ProgressWriter and ProgressReader:
                \*   [file, written, offset, out, ...]; "off" when not running

fsVars == <<dirs, orig, sched, installGone>>
p1Vars == <<pc1, tempDir, procHandle, signalRcvd, msg>>
p2Vars == <<pc2, doneHandle, deleted, renamedPath, p1Handle, sent>>
kVars == <<pcK, kTodo, kDir, kDone, kInfo>>
sdVars == <<now, fsVars, p1Vars, p2Vars, kVars>>
auxVars == <<handover, elevation, deElevation, session, steps, instance, residual, progress>>
vars == <<sdVars, auxVars>>

NoDir == [exists |-> FALSE, exe |-> FALSE, marker |-> FALSE, mtime |-> 0]

\* ------------------------------------------------------- process liveness
SecondAlive(s) == pc2[s] \in {"marker", "delete", "signal", "waitp1", "final"}
SecondDead(s) == pc2[s] \in {"killed", "exited"}
FirstExited(s) == pc1[s] = "exited"
FirstReturned(s) == pc1[s] \in {"returned", "error", "exited"}
\* createSignalWindow .. deferred cleanup(): the signal window exists
WindowExists(s) == pc1[s] = "wait"

\* ------------------------------------------------------------ file system
\* Paths that cannot be opened with DELETE access: the image of a running
\* second-phase copy, a marker held by CreateDoneSignalFile, and the
\* scanner's dirHandle and doneHandle.
Locked ==
    {<<tempDir[s], "exe">> : s \in {x \in Sessions : SecondAlive(x)}}
    \cup {<<tempDir[s], "marker">> : s \in {x \in Sessions : SecondAlive(x) /\ doneHandle[x]}}
    \cup {<<kDir[k], "dir">> : k \in {x \in Scanners : kDir[x] # None}}
    \cup {<<kDir[k], "marker">> : k \in {x \in Scanners : kDone[x]}}

Empty(f, d) == ~f[d].exe /\ ~f[d].marker

\* os.Remove(path): nil iff the entry was removed.
osRemoveOk(f, L, d, what) ==
    /\ f[d].exists
    /\ <<d, what>> \notin L
    /\ CASE what = "exe" -> f[d].exe
         [] what = "marker" -> f[d].marker
         [] what = "dir" -> Empty(f, d)

osRemove(f, L, d, what, t) ==
    IF ~osRemoveOk(f, L, d, what) THEN f
    ELSE CASE what = "exe" -> [f EXCEPT ![d].exe = FALSE, ![d].mtime = t]
           [] what = "marker" -> [f EXCEPT ![d].marker = FALSE, ![d].mtime = t]
           [] what = "dir" -> [f EXCEPT ![d] = NoDir]

\* os.RemoveAll(tempDir): children first, then the directory.
osRemoveAll(f, L, d, t) ==
    osRemove(osRemove(osRemove(f, L, d, "exe", t), L, d, "marker", t), L, d, "dir", t)

\* os.MkdirAll: nil also when the directory already exists.
osMkdirAll(f, d, t) ==
    IF f[d].exists THEN f ELSE [f EXCEPT ![d] = [exists |-> TRUE, exe |-> FALSE, marker |-> FALSE, mtime |-> t]]

\* DelayDeleteFile(path, maxTries, firstDelayMS, subsequentDelayMS): os.Remove
\* retried; the step is taken at the moment of the try that decides it.
DelayDeleteFile(f, L, d, what, t) == osRemove(f, L, d, what, t)

\* isOlderThan5Minutes(ft), with the clock read at the call
isOlderThan5Minutes(ft, t) == IF t > ft THEN (t - ft) > threshold ELSE FALSE

\* ------------------------------------------------------------------ Init
\* What earlier self-delete runs leave in the temp directory: nothing, or a
\* directory holding any subset of {_unins.tmp, _unins-done.tmp}.  Each shape
\* is what a finished or killed session leaves under SpecSolo.
Leftover ==
    {NoDir} \cup
    {[exists |-> TRUE, exe |-> e, marker |-> m, mtime |-> 0] : e \in BOOLEAN, m \in BOOLEAN}

\* GetSecondPhaseConfig's results: a config, or nil with an error
NoConfig == [err |-> "none", OriginalExePath |-> <<>>, FirstPhaseWnd |-> 0]
\* (pid, err) before LaunchDeElevated returned
NoRet == [done |-> FALSE, pid |-> 0, err |-> <<>>]

\* the parts of the program that are not running in a given specification
IdleArgs == handover = "off"
IdleElev == elevation = "off"
IdleDe == deElevation = "off"
IdleSess == session = "off"
IdleSteps == steps = "off"
IdleInstance == instance = "off"
IdleResidual == residual = "off"
IdleProgress == progress = "off"

\* no self-delete process has started
InitSelfDelete ==
    /\ now = 0
    /\ orig = [s \in Sessions |-> "present"]
    /\ sched = [s \in Sessions |-> FALSE]
    /\ installGone = [s \in Sessions |-> FALSE]
    /\ tempDir = [s \in Sessions |-> None]
    /\ procHandle = [s \in Sessions |-> FALSE]
    /\ signalRcvd = [s \in Sessions |-> FALSE]
    /\ msg = [s \in Sessions |-> FALSE]
    /\ pc2 = [s \in Sessions |-> "none"]
    /\ doneHandle = [s \in Sessions |-> FALSE]
    /\ deleted = [s \in Sessions |-> FALSE]
    /\ renamedPath = [s \in Sessions |-> FALSE]
    /\ p1Handle = [s \in Sessions |-> FALSE]
    /\ sent = [s \in Sessions |-> FALSE]
    /\ kTodo = [k \in Scanners |-> {}]
    /\ kDir = [k \in Scanners |-> None]
    /\ kDone = [k \in Scanners |-> FALSE]
    /\ kInfo = [k \in Scanners |-> 0]

\* one installer is started while the uninstaller runs
OneScanner == pcK = [k \in Scanners |-> IF k = 1 THEN "idle" ELSE "off"]

InitProcs ==
    /\ InitSelfDelete
    /\ OneScanner
    /\ IdleResidual
    /\ IdleProgress
    /\ IdleArgs
    /\ IdleElev
    /\ IdleDe
    /\ IdleSess
    /\ IdleSteps
    /\ IdleInstance

\* One uninstaller is run (session 1) on a machine with leftovers.
Init ==
    /\ InitProcs
    /\ dirs \in [Suffixes -> Leftover]
    /\ pc1 = [s \in Sessions |-> IF s = 1 THEN "start" ELSE "off"]

\* One uninstaller is run (session 1) on a clean machine.
InitSolo ==
    /\ InitProcs
    /\ dirs = [d \in Suffixes |-> NoDir]
    /\ pc1 = [s \in Sessions |-> IF s = 1 THEN "start" ELSE "off"]

\* Uninstallers of different executables are started at the same time on a
\* clean machine.
InitPair ==
    /\ InitProcs
    /\ dirs = [d \in Suffixes |-> NoDir]
    /\ pc1 = [s \in Sessions |-> "start"]

\* ------------------------------------------------- RunFirstPhase (104-193)
\* createUniqueTempDir: a random suffix, then MkdirAll.
createUniqueTempDir(s) ==
    /\ pc1[s] = "start"
    /\ \E d \in Suffixes :
        /\ dirs' = osMkdirAll(dirs, d, now)
        /\ tempDir' = [tempDir EXCEPT ![s] = d]
    /\ pc1' = [pc1 EXCEPT ![s] = "copy"]
    /\ UNCHANGED <<auxVars, now, orig, sched, installGone, procHandle, signalRcvd, msg, p2Vars, kVars>>

\* copyFile(selfPath, tempExe); on error os.RemoveAll(tempDir) and return.
\* os.Create fails when the directory is gone or the target is a running image.
copyFile(s) ==
    /\ pc1[s] = "copy"
    /\ LET d == tempDir[s] IN
       \E ok \in BOOLEAN :
        IF ok /\ dirs[d].exists /\ <<d, "exe">> \notin Locked
        THEN /\ dirs' = [dirs EXCEPT ![d].exe = TRUE, ![d].mtime = now]
             /\ pc1' = [pc1 EXCEPT ![s] = "spawn"]
        ELSE /\ dirs' = osRemoveAll(dirs, Locked, d, now)
             /\ pc1' = [pc1 EXCEPT ![s] = "error"]
    /\ UNCHANGED <<auxVars, now, orig, sched, installGone, tempDir, procHandle, signalRcvd, msg, p2Vars, kVars>>

\* createSignalWindow, cmd.Start (with and without CREATE_BREAKAWAY_FROM_JOB),
\* OpenProcess (its error is dropped: processHandle may be 0).
startPhase2(s) ==
    /\ pc1[s] = "spawn"
    /\ LET d == tempDir[s] IN
       \E outcome \in {"handle", "nohandle", "windowErr", "startErr"} :
        IF outcome \in {"handle", "nohandle"} /\ dirs[d].exists /\ dirs[d].exe
        THEN /\ pc1' = [pc1 EXCEPT ![s] = "wait"]
             /\ pc2' = [pc2 EXCEPT ![s] = "marker"]
             /\ procHandle' = [procHandle EXCEPT ![s] = (outcome = "handle")]
             /\ dirs' = dirs
        ELSE /\ dirs' = osRemoveAll(dirs, Locked, d, now)
             /\ pc1' = [pc1 EXCEPT ![s] = "error"]
             /\ UNCHANGED <<pc2, procHandle>>
    /\ UNCHANGED <<auxVars, now, orig, sched, installGone, tempDir, signalRcvd, msg,
                   doneHandle, deleted, renamedPath, p1Handle, sent, kVars>>

\* mutant: the crash cleanup runs whatever the wait returned
shouldDeleteTempDirAlways(signal) == TRUE

\* lines 169-181, with waitForSignalOrProcessDeath (663-708): signalRcvd is
\* true when wmUser was dispatched, false when the process handle is
\* signalled or the wait fails (processHandle = 0).
shouldDeleteTempDir(signal) == ~signal

\* mutant: a failed wait (no process handle) is repeated instead of being
\* taken for the death of the second phase
finishFirstPhaseRetryWait(s) ==
    /\ pc1[s] = "wait"
    /\ \E signal \in BOOLEAN :
        /\ IF signal THEN msg[s] ELSE SecondDead(s) /\ procHandle[s]
        /\ signalRcvd' = [signalRcvd EXCEPT ![s] = signal]
        /\ LET d == tempDir[s] IN
           IF shouldDeleteTempDir(signal)
           THEN dirs' = osRemove(DelayDeleteFile(dirs, Locked, d, "exe", now), Locked, d, "dir", now)
           ELSE dirs' = dirs
    /\ msg' = [msg EXCEPT ![s] = FALSE]
    /\ pc1' = [pc1 EXCEPT ![s] = "returned"]
    /\ UNCHANGED <<auxVars, now, orig, sched, installGone, tempDir, procHandle, p2Vars, kVars>>

\* lines 172-192: the wait returns, crash cleanup when shouldDeleteTempDir,
\* deferred cleanup() destroys the window, return nil.
finishFirstPhase(s) ==
    /\ pc1[s] = "wait"
    /\ \E signal \in BOOLEAN :
        /\ IF signal THEN msg[s] ELSE SecondDead(s) \/ ~procHandle[s]
        /\ signalRcvd' = [signalRcvd EXCEPT ![s] = signal]
        /\ LET d == tempDir[s] IN
           IF shouldDeleteTempDir(signal)
           THEN dirs' = osRemove(DelayDeleteFile(dirs, Locked, d, "exe", now), Locked, d, "dir", now)
           ELSE dirs' = dirs
    /\ msg' = [msg EXCEPT ![s] = FALSE]
    /\ pc1' = [pc1 EXCEPT ![s] = "returned"]
    /\ UNCHANGED <<auxVars, now, orig, sched, installGone, tempDir, procHandle, p2Vars, kVars>>

\* the first-phase OS process terminates after RunFirstPhase returned
exitFirstPhase(s) ==
    /\ pc1[s] \in {"returned", "error"}
    /\ pc1' = [pc1 EXCEPT ![s] = "exited"]
    /\ UNCHANGED <<auxVars, now, fsVars, tempDir, procHandle, signalRcvd, msg, p2Vars, kVars>>

\* ------------------------------- RunSecondPhase (installer/selfdelete.go)
\* CreateDoneSignalFile (272-303): CREATE_NEW, share FILE_SHARE_READ; 0 on any
\* error.  The handle is never closed by the program.
CreateDoneSignalFile(s) ==
    /\ pc2[s] = "marker"
    /\ LET d == tempDir[s] IN
       IF dirs[d].exists /\ ~dirs[d].marker
       THEN /\ dirs' = [dirs EXCEPT ![d].marker = TRUE, ![d].mtime = now]
            /\ doneHandle' = [doneHandle EXCEPT ![s] = TRUE]
       ELSE /\ dirs' = dirs
            /\ doneHandle' = [doneHandle EXCEPT ![s] = FALSE]
    /\ pc2' = [pc2 EXCEPT ![s] = "delete"]
    /\ UNCHANGED <<auxVars, now, orig, sched, installGone, p1Vars, deleted, renamedPath, p1Handle, sent, kVars>>

\* selfdelete.go 68-89: DeleteRunningExe, else os.Rename to ".removing" and
\* MoveFileEx(MOVEFILE_DELAY_UNTIL_REBOOT); every failure is only logged.
\* outcome: which of the three system calls succeed on this system.
deleteOriginal(s) ==
    /\ pc2[s] = "delete"
    /\ \E outcome \in {"posix", "renameSched", "renameOnly", "none"} :
        /\ orig' = [orig EXCEPT ![s] =
                CASE outcome = "posix" -> "unlinked"
                  [] outcome \in {"renameSched", "renameOnly"} -> "renamed"
                  [] OTHER -> @]
        /\ deleted' = [deleted EXCEPT ![s] = (outcome = "posix")]
        /\ renamedPath' = [renamedPath EXCEPT ![s] = (outcome \in {"renameSched", "renameOnly"})]
        /\ sched' = [sched EXCEPT ![s] = (outcome = "renameSched")]
    /\ pc2' = [pc2 EXCEPT ![s] = "signal"]
    /\ UNCHANGED <<auxVars, now, dirs, installGone, p1Vars, doneHandle, p1Handle, sent, kVars>>

\* SignalFirstPhaseAndWait (309-326): GetWindowThreadProcessId, OpenProcess
\* (error dropped), sendNotifyMessage(wnd, wmUser).  wnd # 0 always: the
\* first phase returns before spawning when createSignalWindow fails.
SignalFirstPhase(s) ==
    /\ pc2[s] = "signal"
    /\ IF WindowExists(s)
       THEN /\ \E h \in BOOLEAN : p1Handle' = [p1Handle EXCEPT ![s] = h]
            /\ msg' = [msg EXCEPT ![s] = TRUE]
       ELSE /\ p1Handle' = [p1Handle EXCEPT ![s] = FALSE]
            /\ msg' = msg
    /\ sent' = [sent EXCEPT ![s] = TRUE]
    /\ pc2' = [pc2 EXCEPT ![s] = "waitp1"]
    /\ UNCHANGED <<auxVars, now, fsVars, pc1, tempDir, procHandle, signalRcvd, doneHandle, deleted, renamedPath, kVars>>

\* SignalFirstPhaseAndWait (328-336): WaitForSingleObject(processHandle,
\* INFINITE), or time.Sleep(1s) when there is no handle.
WaitFirstPhaseExit(s) ==
    /\ pc2[s] = "waitp1"
    /\ p1Handle[s] => FirstExited(s)
    /\ pc2' = [pc2 EXCEPT ![s] = "final"]
    /\ UNCHANGED <<auxVars, now, fsVars, p1Vars, doneHandle, deleted, renamedPath, p1Handle, sent, kVars>>

\* selfdelete.go 98-123: DeleteOriginalUninstaller(renamedPath) (fails while
\* the first phase still maps the image), os.Remove(install dir),
\* TryDeleteSelf, "Phase 2 complete", process exit (handles closed by the OS).
finishSecondPhase(s) ==
    /\ pc2[s] = "final"
    /\ LET delNow == ~deleted[s] /\ renamedPath[s] /\ FirstExited(s)
           del == deleted[s] \/ delNow
       IN /\ deleted' = [deleted EXCEPT ![s] = FALSE]
          /\ orig' = [orig EXCEPT ![s] = IF delNow THEN "gone" ELSE @]
          /\ installGone' = [installGone EXCEPT ![s] = del]
    /\ dirs' = DelayDeleteFile(dirs, Locked, tempDir[s], "exe", now)
    /\ pc2' = [pc2 EXCEPT ![s] = "exited"]
    /\ doneHandle' = [doneHandle EXCEPT ![s] = FALSE]
    /\ renamedPath' = [renamedPath EXCEPT ![s] = FALSE]
    /\ p1Handle' = [p1Handle EXCEPT ![s] = FALSE]
    /\ UNCHANGED <<auxVars, now, sched, p1Vars, sent, kVars>>

\* the second-phase process is terminated from outside (job object kill,
\* crash) at any point of its life
Kill(s) ==
    /\ SecondAlive(s)
    /\ pc2' = [pc2 EXCEPT ![s] = "killed"]
    /\ doneHandle' = [doneHandle EXCEPT ![s] = FALSE]
    /\ deleted' = [deleted EXCEPT ![s] = FALSE]
    /\ renamedPath' = [renamedPath EXCEPT ![s] = FALSE]
    /\ p1Handle' = [p1Handle EXCEPT ![s] = FALSE]
    /\ UNCHANGED <<auxVars, now, fsVars, p1Vars, sent, kVars>>

\* ------------------------------------------- CleanupResidualTempDirs (361)
Min(S) == CHOOSE x \in S : \A y \in S : x <= y

\* mutant: the handles are closed before the removals and the age is not
\* read from the handle but taken at the removal, so a stale directory goes
tryDeleteUninstallDirClosed(f, L, d, t) ==
    IF ~f[d].exists \/ <<d, "dir">> \in L THEN f
    ELSE IF f[d].marker /\ <<d, "marker">> \notin L
         THEN IF osRemoveOk(f, L, d, "exe")
              THEN osRemove(osRemove(osRemove(f, L, d, "exe", t), L, d, "marker", t), L, d, "dir", t)
              ELSE f
         ELSE IF isOlderThan5Minutes(f[d].mtime, t)
              THEN osRemove(f, L, d, "dir", t)
              ELSE f

\* The scanner as a function of the file system, for a run that no other
\* process interleaves with: tryDeleteUninstallDir (390-464) on one directory.
\* L: the paths other processes hold; L1, L2: with the run's own dirHandle
\* and doneHandle, which stay open until the function returns.
tryDeleteUninstallDir(f, L, d, t) ==
    IF ~f[d].exists \/ <<d, "dir">> \in L THEN f
    ELSE LET L1 == L \cup {<<d, "dir">>}
             L2 == L1 \cup {<<d, "marker">>}
         IN IF f[d].marker /\ <<d, "marker">> \notin L1
            THEN IF osRemoveOk(f, L2, d, "exe")
                 THEN osRemove(osRemove(osRemove(f, L2, d, "exe", t), L2, d, "marker", t), L2, d, "dir", t)
                 ELSE f
            ELSE IF isOlderThan5Minutes(f[d].mtime, t)
                 THEN osRemove(f, L1, d, "dir", t)
                 ELSE f

RECURSIVE cleanupLoop(_, _, _, _)
\* lines 376-383: the loop over the Glob result, in name order
cleanupLoop(f, L, todo, t) ==
    IF todo = {} THEN f
    ELSE LET d == Min(todo)
         IN cleanupLoop(tryDeleteUninstallDir(f, L, d, t), L, todo \ {d}, t)

\* CleanupResidualTempDirs (361-386) run at time t by a process whose own
\* temp directory is self (None: not a temp copy)
CleanupResidualTempDirs(f, L, self, t) ==
    cleanupLoop(f, L, {d \in Suffixes : f[d].exists /\ d # self}, t)

\* lines 362-375: filepath.Glob, os.Executable.  The own directory (selfExe
\* is a temp copy, 393-396) is skipped without any effect, so it is left out
\* of the list here.
scanStart(k) ==
    /\ pcK[k] = "idle"
    /\ \E self \in {None} \cup {tempDir[s] : s \in {x \in Sessions : SecondAlive(x)}} :
        kTodo' = [kTodo EXCEPT ![k] = {d \in Suffixes : dirs[d].exists /\ d # self}]
    /\ pcK' = [pcK EXCEPT ![k] = "loop"]
    /\ UNCHANGED <<auxVars, now, fsVars, p1Vars, p2Vars, kDir, kDone, kInfo>>

\* mutant: the directory is opened with FILE_SHARE_DELETE as well, so an
\* open never meets a sharing violation
openDirShared(k) ==
    /\ pcK[k] = "loop"
    /\ kTodo[k] # {}
    /\ LET d == Min(kTodo[k]) IN
        /\ kTodo' = [kTodo EXCEPT ![k] = @ \ {d}]
        /\ IF dirs[d].exists
           THEN /\ kDir' = [kDir EXCEPT ![k] = d]
                /\ kInfo' = [kInfo EXCEPT ![k] = dirs[d].mtime]
                /\ pcK' = [pcK EXCEPT ![k] = "marker"]
           ELSE UNCHANGED <<kDir, kInfo, pcK>>
    /\ UNCHANGED <<auxVars, now, fsVars, p1Vars, p2Vars, kDone>>

\* tryDeleteUninstallDir 390-426: skip the own directory; open the directory
\* (DELETE, share FILE_SHARE_READ); GetFileInformationByHandle.
openDir(k) ==
    /\ pcK[k] = "loop"
    /\ kTodo[k] # {}
    /\ LET d == Min(kTodo[k]) IN
        /\ kTodo' = [kTodo EXCEPT ![k] = @ \ {d}]
        /\ IF dirs[d].exists /\ <<d, "dir">> \notin Locked
           THEN /\ kDir' = [kDir EXCEPT ![k] = d]
                /\ kInfo' = [kInfo EXCEPT ![k] = dirs[d].mtime]
                /\ pcK' = [pcK EXCEPT ![k] = "marker"]
           ELSE UNCHANGED <<kDir, kInfo, pcK>>
    /\ UNCHANGED <<auxVars, now, fsVars, p1Vars, p2Vars, kDone>>

\* lines 376-385: the loop is over
scanEnd(k) ==
    /\ pcK[k] = "loop"
    /\ kTodo[k] = {}
    /\ pcK' = [pcK EXCEPT ![k] = "idle"]
    /\ UNCHANGED <<auxVars, now, fsVars, p1Vars, p2Vars, kTodo, kDir, kDone, kInfo>>

\* mutant: the error check after the marker open is inverted
openDoneInverted(k) ==
    /\ pcK[k] = "marker"
    /\ LET d == kDir[k] IN
       IF ~(dirs[d].marker /\ <<d, "marker">> \notin Locked)
       THEN pcK' = [pcK EXCEPT ![k] = "rmexe"]
       ELSE pcK' = [pcK EXCEPT ![k] = "stale"]
    /\ UNCHANGED <<auxVars, now, fsVars, p1Vars, p2Vars, kTodo, kDir, kDone, kInfo>>

\* lines 431-441: open the marker (DELETE, share FILE_SHARE_READ)
openDone(k) ==
    /\ pcK[k] = "marker"
    /\ LET d == kDir[k] IN
       IF dirs[d].marker /\ <<d, "marker">> \notin Locked
       THEN /\ kDone' = [kDone EXCEPT ![k] = TRUE]
            /\ kInfo' = [kInfo EXCEPT ![k] = 0]
            /\ pcK' = [pcK EXCEPT ![k] = "rmexe"]
       ELSE /\ kDone' = kDone
            /\ kInfo' = kInfo
            /\ pcK' = [pcK EXCEPT ![k] = "stale"]
    /\ UNCHANGED <<auxVars, now, fsVars, p1Vars, p2Vars, kTodo, kDir>>

\* mutant: the stale branch removes the directory with what is in it
staleDirRemoveAll(k) ==
    /\ pcK[k] = "stale"
    /\ dirs' = IF isOlderThan5Minutes(kInfo[k], now)
               THEN osRemoveAll(dirs, Locked, kDir[k], now)
               ELSE dirs
    /\ kDir' = [kDir EXCEPT ![k] = None]
    /\ kInfo' = [kInfo EXCEPT ![k] = 0]
    /\ pcK' = [pcK EXCEPT ![k] = "loop"]
    /\ UNCHANGED <<auxVars, now, orig, sched, installGone, p1Vars, p2Vars, kTodo, kDone>>

\* lines 441-451: marker absent or locked; os.Remove(dir) when stale; the
\* deferred CloseHandle(dirHandle) runs at the return, after os.Remove.
staleDir(k) ==
    /\ pcK[k] = "stale"
    /\ dirs' = IF isOlderThan5Minutes(kInfo[k], now)
               THEN osRemove(dirs, Locked, kDir[k], "dir", now)
               ELSE dirs
    /\ kDir' = [kDir EXCEPT ![k] = None]
    /\ kInfo' = [kInfo EXCEPT ![k] = 0]
    /\ pcK' = [pcK EXCEPT ![k] = "loop"]
    /\ UNCHANGED <<auxVars, now, orig, sched, installGone, p1Vars, p2Vars, kTodo, kDone>>

\* mutant: the temp copy is unlinked the way DeleteRunningExe unlinks, which
\* works on a running image
removeExePosix(k) ==
    /\ pcK[k] = "rmexe"
    /\ LET d == kDir[k] IN
       IF osRemoveOk(dirs, {}, d, "exe")
       THEN /\ dirs' = osRemove(dirs, {}, d, "exe", now)
            /\ pcK' = [pcK EXCEPT ![k] = "rmrest"]
            /\ UNCHANGED <<kDir, kDone>>
       ELSE /\ dirs' = dirs
            /\ pcK' = [pcK EXCEPT ![k] = "loop"]
            /\ kDir' = [kDir EXCEPT ![k] = None]
            /\ kDone' = [kDone EXCEPT ![k] = FALSE]
    /\ UNCHANGED <<auxVars, now, orig, sched, installGone, p1Vars, p2Vars, kTodo, kInfo>>

\* lines 454-457: os.Remove(uninsExe); on error return (handles closed)
removeExe(k) ==
    /\ pcK[k] = "rmexe"
    /\ LET d == kDir[k] IN
       IF osRemoveOk(dirs, Locked, d, "exe")
       THEN /\ dirs' = osRemove(dirs, Locked, d, "exe", now)
            /\ pcK' = [pcK EXCEPT ![k] = "rmrest"]
            /\ UNCHANGED <<kDir, kDone>>
       ELSE /\ dirs' = dirs
            /\ pcK' = [pcK EXCEPT ![k] = "loop"]
            /\ kDir' = [kDir EXCEPT ![k] = None]
            /\ kDone' = [kDone EXCEPT ![k] = FALSE]
    /\ UNCHANGED <<auxVars, now, orig, sched, installGone, p1Vars, p2Vars, kTodo, kInfo>>

\* lines 459-464: os.Remove(doneFile), os.Remove(dir), both by path while
\* doneHandle and dirHandle are still open; then the deferred CloseHandles.
removeDoneAndDir(k) ==
    /\ pcK[k] = "rmrest"
    /\ LET d == kDir[k] IN
       dirs' = osRemove(osRemove(dirs, Locked, d, "marker", now), Locked, d, "dir", now)
    /\ kDir' = [kDir EXCEPT ![k] = None]
    /\ kDone' = [kDone EXCEPT ![k] = FALSE]
    /\ pcK' = [pcK EXCEPT ![k] = "loop"]
    /\ UNCHANGED <<auxVars, now, orig, sched, installGone, p1Vars, p2Vars, kTodo, kInfo>>

\* ----------------------------------------------------------------- clock
\* time passes; one step is more than half the staleness threshold
Tick ==
    /\ now + (threshold \div 2 + 1) <= MaxNow
    /\ now' = now + (threshold \div 2 + 1)
    /\ UNCHANGED <<auxVars, fsVars, p1Vars, p2Vars, kVars>>

\* the steps of the two phases of a session
SessionStep ==
    \E s \in Sessions :
        \/ createUniqueTempDir(s)
        \/ copyFile(s)
        \/ startPhase2(s)
        \/ finishFirstPhase(s)
        \/ exitFirstPhase(s)
        \/ CreateDoneSignalFile(s)
        \/ deleteOriginal(s)
        \/ SignalFirstPhase(s)
        \/ WaitFirstPhaseExit(s)
        \/ finishSecondPhase(s)
        \/ Kill(s)

\* the steps of a process running CleanupResidualTempDirs
CleanupStep ==
    \E k \in Scanners :
        \/ scanStart(k)
        \/ openDir(k)
        \/ scanEnd(k)
        \/ openDone(k)
        \/ staleDir(k)
        \/ removeExe(k)
        \/ removeDoneAndDir(k)

Step == SessionStep \/ CleanupStep

Next == Step \/ Tick

Spec == Init /\ [][Next]_vars

\* the pair runs within one step of the clock, and no scanner runs meanwhile
SpecPair == InitPair /\ [][SessionStep]_vars

\* one uninstaller on a clean machine
SpecSolo == InitSolo /\ [][Next]_vars

\* the same, where no process stops for ever before a step it can take,
\* installers keep being started (each runs CleanupResidualTempDirs at
\* startup) and the clock moves
SpecSoloFair == SpecSolo /\ WF_vars(SessionStep) /\ WF_vars(CleanupStep) /\ WF_vars(Tick)

\* installers are started at the same time on a machine with leftovers; no
\* uninstaller runs
InitScanners ==
    /\ InitSelfDelete
    /\ IdleResidual
    /\ IdleProgress
    /\ IdleArgs
    /\ IdleElev
    /\ IdleDe
    /\ IdleSess
    /\ IdleSteps
    /\ IdleInstance
    /\ dirs \in [Suffixes -> Leftover]
    /\ pc1 = [s \in Sessions |-> "off"]
    /\ pcK = [k \in Scanners |-> "idle"]

NextScanners == CleanupStep \/ Tick

SpecScanners == InitScanners /\ [][NextScanners]_vars

\* no self-delete session and no scanner is running
IdleSelfDelete ==
    /\ InitSelfDelete
    /\ dirs = [d \in Suffixes |-> NoDir]
    /\ pc1 = [s \in Sessions |-> "off"]
    /\ pcK = [k \in Scanners |-> "off"]

\* ------------------------------------ strings (sequences of characters)
lowerCase == <<"a","b","c","d","e","f","g","h","i","j","k","l","m",
               "n","o","p","q","r","s","t","u","v","w","x","y","z">>
upperCase == <<"A","B","C","D","E","F","G","H","I","J","K","L","M",
               "N","O","P","Q","R","S","T","U","V","W","X","Y","Z">>
digits == <<"0","1","2","3","4","5","6","7","8","9">>

Rep(c, n) == [k \in 1..n |-> c]

\* strings.ToUpper
ToUpperChar(c) ==
    IF \E i \in DOMAIN lowerCase : lowerCase[i] = c
    THEN upperCase[CHOOSE i \in DOMAIN lowerCase : lowerCase[i] = c]
    ELSE c
ToUpper(str) == [i \in 1..Len(str) |-> ToUpperChar(str[i])]

\* strings.HasPrefix
HasPrefix(str, prefix) ==
    Len(str) >= Len(prefix) /\ SubSeq(str, 1, Len(prefix)) = prefix

\* strings.Index(str, c): 0-based index of the first c, -1 when absent
Index(str, c) ==
    IF \E i \in 1..Len(str) : str[i] = c
    THEN Min({i \in 1..Len(str) : str[i] = c}) - 1
    ELSE -1

\* str[from:], from 0-based
SliceFrom(str, from) == SubSeq(str, from + 1, Len(str))

RECURSIVE FormatUint(_)
\* fmt.Sprintf("%d", uintptr(n))
FormatUint(n) ==
    IF n < 10 THEN <<digits[n + 1]>>
    ELSE FormatUint(n \div 10) \o <<digits[(n % 10) + 1]>>

RECURSIVE digitsValue(_, _, _)
digitsValue(str, i, acc) ==
    IF i > Len(str) THEN acc
    ELSE digitsValue(str, i + 1,
            acc * 10 + ((CHOOSE d \in DOMAIN digits : digits[d] = str[i]) - 1))

\* strconv.ParseUint(str, 10, 64): an error on "" and on any character that
\* is not a decimal digit (no sign, no prefix, no underscore in base 10)
ParseUint(str) ==
    IF str = <<>> \/ \E i \in 1..Len(str) : \A d \in DOMAIN digits : digits[d] # str[i]
    THEN [ok |-> FALSE, val |-> 0]
    ELSE [ok |-> TRUE, val |-> digitsValue(str, 1, 0)]

\* --------------------------------- command line between the two phases
secondPhaseFlag == <<"/","S","E","C","O","N","D","P","H","A","S","E","=">>
firstPhaseWndFlag == <<"/","F","I","R","S","T","P","H","A","S","E","W","N","D","=">>

\* IsSecondPhase (46-53) on an argument list
IsSecondPhase(argv) ==
    \E i \in 1..Len(argv) : HasPrefix(ToUpper(argv[i]), secondPhaseFlag)

\* mutant: the prefix is compared without upper-casing the argument
filterLoopCaseSensitive(argv, i, filtered) ==
    SelectSeq(argv, LAMBDA arg :
        ~HasPrefix(arg, secondPhaseFlag) /\ ~HasPrefix(arg, firstPhaseWndFlag))

RECURSIVE filterLoop(_, _, _)
\* FilterSecondPhaseArgs 91-97: the loop over os.Args[1:]
filterLoop(argv, i, filtered) ==
    IF i > Len(argv) THEN filtered
    ELSE LET arg == argv[i]
             upper == ToUpper(arg)
         IN filterLoop(argv, i + 1,
                IF ~HasPrefix(upper, secondPhaseFlag) /\ ~HasPrefix(upper, firstPhaseWndFlag)
                THEN Append(filtered, arg)
                ELSE filtered)

FilterSecondPhaseArgs(argv) == filterLoop(argv, 1, <<>>)

\* mutant: the value is cut out of the upper-cased argument
secondPhaseValueUpper(arg) ==
    LET idx == Index(arg, "=")
    IN IF idx >= 0 THEN SliceFrom(ToUpper(arg), idx + 1) ELSE <<>>

\* GetSecondPhaseConfig 63-67: the text after the first "=" of the argument
\* itself (case preserved); <<>> stands for "not assigned"
secondPhaseValue(arg) ==
    LET idx == Index(arg, "=")
    IN IF idx >= 0 THEN SliceFrom(arg, idx + 1) ELSE <<>>

RECURSIVE configLoop(_, _, _)
\* GetSecondPhaseConfig 60-84
configLoop(argv, i, cfg) ==
    IF i > Len(argv)
    THEN IF cfg.OriginalExePath = <<>>
         THEN [NoConfig EXCEPT !.err = "missing"]
         ELSE cfg
    ELSE LET arg == argv[i]
             upper == ToUpper(arg)
             idx == Index(arg, "=")
         IN IF HasPrefix(upper, secondPhaseFlag)
            THEN configLoop(argv, i + 1,
                    IF idx >= 0 THEN [cfg EXCEPT !.OriginalExePath = secondPhaseValue(arg)]
                    ELSE cfg)
            ELSE IF HasPrefix(upper, firstPhaseWndFlag) /\ idx >= 0
            THEN LET hwnd == ParseUint(SliceFrom(arg, idx + 1))
                 IN IF ~hwnd.ok
                    THEN [NoConfig EXCEPT !.err = "parse"]
                    ELSE configLoop(argv, i + 1, [cfg EXCEPT !.FirstPhaseWnd = hwnd.val])
            ELSE configLoop(argv, i + 1, cfg)

GetSecondPhaseConfig(argv) == configLoop(argv, 1, NoConfig)

\* exec.Command(tempExe, args...).Start() builds one command line out of the
\* arguments (syscall.EscapeArg), and the spawned copy's runtime cuts it into
\* os.Args again (commandLineToArgv).
RECURSIVE escLoop(_, _, _, _)
escLoop(str, i, slashes, hasSpace) ==
    IF i > Len(str)
    THEN IF hasSpace THEN Rep("\\", slashes) \o <<"\"">> ELSE <<>>
    ELSE LET c == str[i]
         IN IF c = "\\" THEN <<c>> \o escLoop(str, i + 1, slashes + 1, hasSpace)
            ELSE IF c = "\"" THEN Rep("\\", slashes) \o <<"\\", c>> \o escLoop(str, i + 1, 0, hasSpace)
            ELSE <<c>> \o escLoop(str, i + 1, 0, hasSpace)

EscapeArg(str) ==
    LET needsBackslash == \E i \in 1..Len(str) : str[i] \in {"\"", "\\"}
        hasSpace == \E i \in 1..Len(str) : str[i] \in {" ", "\t"}
    IN IF str = <<>> THEN <<"\"", "\"">>
       ELSE IF ~needsBackslash /\ ~hasSpace THEN str
       ELSE IF ~needsBackslash THEN <<"\"">> \o str \o <<"\"">>
       ELSE (IF hasSpace THEN <<"\"">> ELSE <<>>) \o escLoop(str, 1, 0, hasSpace)

RECURSIVE Join(_, _)
\* strings.Join
Join(strs, sep) ==
    IF strs = <<>> THEN <<>>
    ELSE IF Len(strs) = 1 THEN strs[1]
    ELSE strs[1] \o sep \o Join(Tail(strs), sep)

\* the argument part of the command line cmd.Start() passes to CreateProcess
makeCmdLine(argv) == Join([i \in 1..Len(argv) |-> EscapeArg(argv[i])], <<" ">>)

RECURSIVE readNextArg(_, _, _, _, _)
\* one argument, from position i; next: where the following one starts
readNextArg(cmd, i, b, inquote, nslash) ==
    IF i > Len(cmd) THEN [arg |-> b \o Rep("\\", nslash), next |-> i]
    ELSE LET c == cmd[i]
         IN IF c \in {" ", "\t"} /\ ~inquote
            THEN [arg |-> b \o Rep("\\", nslash), next |-> i + 1]
            ELSE IF c = "\""
            THEN LET b1 == b \o Rep("\\", nslash \div 2)
                 IN IF nslash % 2 = 0
                    THEN IF inquote /\ i + 1 <= Len(cmd) /\ cmd[i + 1] = "\""
                         THEN readNextArg(cmd, i + 2, b1 \o <<c>>, ~inquote, 0)
                         ELSE readNextArg(cmd, i + 1, b1, ~inquote, 0)
                    ELSE readNextArg(cmd, i + 1, b1 \o <<c>>, inquote, 0)
            ELSE IF c = "\\"
            THEN readNextArg(cmd, i + 1, b, inquote, nslash + 1)
            ELSE readNextArg(cmd, i + 1, b \o Rep("\\", nslash) \o <<c>>, inquote, 0)

RECURSIVE argvLoop(_, _, _)
argvLoop(cmd, i, out) ==
    IF i > Len(cmd) THEN out
    ELSE IF cmd[i] \in {" ", "\t"} THEN argvLoop(cmd, i + 1, out)
    ELSE LET r == readNextArg(cmd, i, <<>>, FALSE, 0)
         IN argvLoop(cmd, r.next, Append(out, r.arg))

\* os.Args[1:] of a process started with this argument part of a command line
commandLineToArgv(cmd) == argvLoop(cmd, 1, <<>>)

\* ----- inputs
\* the same text in lower case, and with every second letter in lower case
Lowered(str) ==
    [i \in 1..Len(str) |->
        IF \E k \in DOMAIN upperCase : upperCase[k] = str[i]
        THEN lowerCase[CHOOSE k \in DOMAIN upperCase : upperCase[k] = str[i]]
        ELSE str[i]]
Mixed(str) == [i \in 1..Len(str) |-> IF i % 2 = 0 THEN Lowered(str)[i] ELSE str[i]]

\* arguments a process may be started with
ArgPool ==
    { <<>>,
      <<"/", "S">>,
      <<"a", " ", "b">>,
      <<"x", " ", "\\">>,
      <<"\\", "\"", "q">>,
      secondPhaseFlag,
      secondPhaseFlag \o <<"p", "=", "Q">>,
      Lowered(secondPhaseFlag) \o <<"r">>,
      firstPhaseWndFlag \o <<"7">>,
      Mixed(firstPhaseWndFlag) \o <<"1", "x">>,
      <<"-", "v", "=">> \o secondPhaseFlag }

\* os.Executable() of the original uninstaller
PathPool ==
    { <<"c", ":", "\\", "P", " ", "f", "\\", "u", "=", "1", ".", "e", "x", "e">>,
      <<"D", ":", "\\", "u", ".", "E", "X", "E">> }

RECURSIVE SeqsUpTo(_, _)
SeqsUpTo(S, n) ==
    IF n = 0 THEN {<<>>}
    ELSE LET shorter == SeqsUpTo(S, n - 1)
         IN shorter \cup {Append(q, x) : q \in shorter, x \in S}

\* a process is started with some arguments; it runs RunFirstPhase up to the
\* spawn, or it parses its own command line as a second phase
InitArgs ==
    /\ IdleSelfDelete
    /\ IdleResidual
    /\ IdleProgress
    /\ IdleElev
    /\ IdleDe
    /\ IdleSess
    /\ IdleSteps
    /\ IdleInstance
    /\ handover \in [pc : {"start"},
                     osArgs : SeqsUpTo(ArgPool, MaxArgs),
                     selfPath : PathPool,
                     wnd : 1..MaxWnd,
                     args : {<<>>},
                     childArgs : {<<>>},
                     config : {NoConfig}]

\* RunFirstPhase 135-141: the two flags, then the forwarded arguments
buildArgs ==
    /\ handover.pc = "start"
    /\ handover' = [handover EXCEPT
            !.args = <<secondPhaseFlag \o handover.selfPath,
                       firstPhaseWndFlag \o FormatUint(handover.wnd)>>
                        \o FilterSecondPhaseArgs(handover.osArgs),
            !.pc = "built"]
    /\ UNCHANGED <<sdVars, residual, progress, elevation, deElevation, session, steps, instance>>

\* RunFirstPhase 150-165: cmd.Start(); the copy's os.Args
startCopy ==
    /\ handover.pc = "built"
    /\ handover' = [handover EXCEPT
            !.childArgs = commandLineToArgv(makeCmdLine(handover.args)),
            !.pc = "spawned"]
    /\ UNCHANGED <<sdVars, residual, progress, elevation, deElevation, session, steps, instance>>

\* RunSecondPhase (selfdelete.go 36): GetSecondPhaseConfig in the copy
parseConfig ==
    /\ handover.pc = "spawned"
    /\ handover' = [handover EXCEPT
            !.config = GetSecondPhaseConfig(handover.childArgs),
            !.pc = "parsed"]
    /\ UNCHANGED <<sdVars, residual, progress, elevation, deElevation, session, steps, instance>>

\* GetSecondPhaseConfig in a process started with osArgs by anything else
parseOwn ==
    /\ handover.pc = "start"
    /\ handover' = [handover EXCEPT
            !.config = GetSecondPhaseConfig(handover.osArgs),
            !.pc = "own"]
    /\ UNCHANGED <<sdVars, residual, progress, elevation, deElevation, session, steps, instance>>

NextArgs == buildArgs \/ startCopy \/ parseConfig \/ parseOwn

SpecArgs == InitArgs /\ [][NextArgs]_vars

\* ------------------------------------------ elevation (windows build)
\* what the security-token query can give: OpenProcessToken fails,
\* GetTokenInformation fails, TokenIsElevated # 0, TokenIsElevated = 0
TokenStates == {"openErr", "infoErr", "elevated", "limited"}
\* ShellExecute "runas": started (prompt accepted), ERROR_CANCELLED (prompt
\* declined), any other error
ShellResults == {"ok", "cancelled", "error"}

\* isElevated (68-93): (bool, error)
isElevated(env) ==
    CASE env.token = "openErr" -> [elevated |-> FALSE, err |-> TRUE]
      [] env.token = "infoErr" -> [elevated |-> FALSE, err |-> TRUE]
      [] env.token = "elevated" -> [elevated |-> TRUE, err |-> FALSE]
      [] OTHER -> [elevated |-> FALSE, err |-> FALSE]

\* mutant: a failed query counts as elevated
IsElevatedOnError(env) ==
    LET r == isElevated(env) IN IF r.err THEN TRUE ELSE r.elevated

\* IsElevated (19-25)
IsElevated(env) ==
    LET r == isElevated(env) IN IF r.err THEN FALSE ELSE r.elevated

\* mutant: every ShellExecute error is returned as it is
shellErrorPlain(res) == "err"

\* EnsureElevated 55-60: the error returned for a failed ShellExecute
shellError(res) == IF res = "cancelled" THEN "ErrElevationDeclined" ELSE "err"

InitElev ==
    /\ IdleSelfDelete
    /\ IdleResidual
    /\ IdleProgress
    /\ IdleArgs
    /\ IdleDe
    /\ IdleSess
    /\ IdleSteps
    /\ IdleInstance
    /\ elevation \in [pc : {"start"},
                      osArgs : SeqsUpTo(ArgPool, MaxArgs),
                      env : [token : TokenStates, exe : BOOLEAN, shell : ShellResults],
                      ret : {"none"},
                      child : {<<>>},
                      prompts : {0}]

\* the process calls IsElevated
callIsElevated ==
    /\ elevation.pc = "start"
    /\ elevation' = [elevation EXCEPT
            !.ret = IF IsElevated(elevation.env) THEN "true" ELSE "false",
            !.pc = "answered"]
    /\ UNCHANGED <<sdVars, residual, progress, handover, deElevation, session, steps, instance>>

\* mutant: the relaunch is attempted whatever the token says
ensureCheckAlways ==
    /\ elevation.pc = "start"
    /\ elevation' = [elevation EXCEPT !.pc = "exe"]
    /\ UNCHANGED <<sdVars, residual, progress, handover, deElevation, session, steps, instance>>

\* EnsureElevated 31-39: a failed query counts as not elevated
ensureCheck ==
    /\ elevation.pc = "start"
    /\ LET r == isElevated(elevation.env)
           elevated == IF r.err THEN FALSE ELSE r.elevated
       IN IF elevated
          THEN elevation' = [elevation EXCEPT !.pc = "returned", !.ret = "nil"]
          ELSE elevation' = [elevation EXCEPT !.pc = "exe"]
    /\ UNCHANGED <<sdVars, residual, progress, handover, deElevation, session, steps, instance>>

\* EnsureElevated 41-44: os.Executable()
ensureExecutable ==
    /\ elevation.pc = "exe"
    /\ IF elevation.env.exe
       THEN elevation' = [elevation EXCEPT !.pc = "shell"]
       ELSE elevation' = [elevation EXCEPT !.pc = "returned", !.ret = "err"]
    /\ UNCHANGED <<sdVars, residual, progress, handover, deElevation, session, steps, instance>>

\* EnsureElevated 46-60: args := strings.Join(os.Args[1:], " ");
\* ShellExecute(runas, exePath, args).  The started process cuts the
\* parameter string into its os.Args.
ensureShellExecute ==
    /\ elevation.pc = "shell"
    /\ IF elevation.env.shell = "ok"
       THEN elevation' = [elevation EXCEPT
                !.prompts = @ + 1,
                !.child = Append(@, commandLineToArgv(Join(elevation.osArgs, <<" ">>))),
                !.pc = "relaunched"]
       ELSE elevation' = [elevation EXCEPT
                !.prompts = @ + 1,
                !.pc = "returned",
                !.ret = shellError(elevation.env.shell)]
    /\ UNCHANGED <<sdVars, residual, progress, handover, deElevation, session, steps, instance>>

\* EnsureElevated 62-63: os.Exit(0)
ensureExit ==
    /\ elevation.pc = "relaunched"
    /\ elevation' = [elevation EXCEPT !.pc = "exited"]
    /\ UNCHANGED <<sdVars, residual, progress, handover, deElevation, session, steps, instance>>

NextElev ==
    \/ callIsElevated
    \/ ensureCheck
    \/ ensureExecutable
    \/ ensureShellExecute
    \/ ensureExit

SpecElev == InitElev /\ [][NextElev]_vars

\* ------------------------------------------------- LaunchDeElevated
\* shellExecuteViaExplorer (236-372): nil, or the step that failed
ComOutcomes ==
    {"ok", "COM panic", "CoInitializeEx", "create ShellWindows",
     "query IDispatch on ShellWindows", "FindWindowSW", "query IServiceProvider",
     "QueryService(STopLevelBrowser)", "QueryActiveShellView", "GetItemObject",
     "query IShellFolderViewDual", "get Application property", "ShellExecute"}
\* launchViaScheduledTask (184-216)
TaskOutcomes == {"ok", "create task", "run task"}
\* launchWithShellToken (377-458)
TokenOutcomes ==
    {"ok", "no shell window found", "cannot determine shell process ID",
     "open shell process", "open shell process token", "duplicate shell token",
     "create environment block", "invalid path", "invalid work dir",
     "CreateProcessWithTokenW"}
\* launchDirect (461-497)
DirectOutcomes == {"ok", "invalid path", "invalid work dir", "CreateProcess"}
\* pi.ProcessId of a process the caller created itself
Pids == {4, 1000}

Strategies == <<"com", "task", "token">>

\* LaunchDeElevated's (pid, err)
Returned(pid, err) == [done |-> TRUE, pid |-> pid, err |-> err]

InitDe ==
    /\ IdleSelfDelete
    /\ IdleResidual
    /\ IdleProgress
    /\ IdleArgs
    /\ IdleElev
    /\ IdleSess
    /\ IdleSteps
    /\ IdleInstance
    /\ deElevation \in [pc : {"start"},
                        env : [priv : TokenStates, com : ComOutcomes, task : TaskOutcomes,
                               token : TokenOutcomes, direct : DirectOutcomes, pid : Pids],
                        tried : {<<>>},
                        ret : {NoRet}]

\* LaunchDeElevated 158-160: if !IsElevated() launch directly
deCheck ==
    /\ deElevation.pc = "start"
    /\ deElevation' = [deElevation EXCEPT
            !.pc = IF ~IsElevated([token |-> deElevation.env.priv]) THEN "direct" ELSE "com"]
    /\ UNCHANGED <<sdVars, residual, progress, handover, elevation, session, steps, instance>>

\* launchDirect (461-497): CreateProcess
launchDirect ==
    /\ deElevation.pc = "direct"
    /\ deElevation' = [deElevation EXCEPT
            !.tried = Append(@, "direct"),
            !.ret = IF deElevation.env.direct = "ok"
                    THEN Returned(deElevation.env.pid, <<>>)
                    ELSE Returned(0, <<deElevation.env.direct>>),
            !.pc = "returned"]
    /\ UNCHANGED <<sdVars, residual, progress, handover, elevation, session, steps, instance>>

\* mutant: the next strategy is tried although Explorer started the process
shellExecuteViaExplorerFallThrough ==
    /\ deElevation.pc = "com"
    /\ deElevation' = [deElevation EXCEPT !.tried = Append(@, "com"), !.pc = "task"]
    /\ UNCHANGED <<sdVars, residual, progress, handover, elevation, session, steps, instance>>

\* LaunchDeElevated 162-165: shellExecuteViaExplorer; its error is dropped
shellExecuteViaExplorer ==
    /\ deElevation.pc = "com"
    /\ IF deElevation.env.com = "ok"
       THEN deElevation' = [deElevation EXCEPT
                !.tried = Append(@, "com"), !.pc = "returned", !.ret = Returned(0, <<>>)]
       ELSE deElevation' = [deElevation EXCEPT !.tried = Append(@, "com"), !.pc = "task"]
    /\ UNCHANGED <<sdVars, residual, progress, handover, elevation, session, steps, instance>>

\* mutant: the scheduled-task strategy reports a process id
launchViaScheduledTaskPid ==
    /\ deElevation.pc = "task"
    /\ IF deElevation.env.task = "ok"
       THEN deElevation' = [deElevation EXCEPT
                !.tried = Append(@, "task"), !.pc = "returned",
                !.ret = Returned(deElevation.env.pid, <<>>)]
       ELSE deElevation' = [deElevation EXCEPT !.tried = Append(@, "task"), !.pc = "token"]
    /\ UNCHANGED <<sdVars, residual, progress, handover, elevation, session, steps, instance>>

\* LaunchDeElevated 167-170: launchViaScheduledTask; its error is dropped
launchViaScheduledTask ==
    /\ deElevation.pc = "task"
    /\ IF deElevation.env.task = "ok"
       THEN deElevation' = [deElevation EXCEPT
                !.tried = Append(@, "task"), !.pc = "returned", !.ret = Returned(0, <<>>)]
       ELSE deElevation' = [deElevation EXCEPT !.tried = Append(@, "task"), !.pc = "token"]
    /\ UNCHANGED <<sdVars, residual, progress, handover, elevation, session, steps, instance>>

\* LaunchDeElevated 172-177: launchWithShellToken; on error
\* fmt.Errorf("de-elevated launch: all strategies failed: %w", err)
launchWithShellToken ==
    /\ deElevation.pc = "token"
    /\ deElevation' = [deElevation EXCEPT
            !.tried = Append(@, "token"),
            !.ret = IF deElevation.env.token = "ok"
                    THEN Returned(deElevation.env.pid, <<>>)
                    ELSE Returned(0, <<"de-elevated launch: all strategies failed",
                                       deElevation.env.token>>),
            !.pc = "returned"]
    /\ UNCHANGED <<sdVars, residual, progress, handover, elevation, session, steps, instance>>

NextDe ==
    \/ deCheck
    \/ launchDirect
    \/ shellExecuteViaExplorer
    \/ launchViaScheduledTask
    \/ launchWithShellToken

SpecDe == InitDe /\ [][NextDe]_vars

\* ------------------------------------------------- LaunchAsSessionUser
\* waitForProcessByName(name, 8*time.Second), time.Sleep(250ms) between the
\* polls: the clock of the wait counts polls
pollTimeout == 8
pollsPerSecond == 4

\* the caller's account as isRunningAsSystem (260-279) finds it, or the
\* query that failed
Accounts == {"system", "user", "openErr", "infoErr"}

\* isRunningAsSystem: false on every error
isRunningAsSystem(account) == account = "system"

\* what LaunchDeElevated meets when LaunchAsSessionUser calls it
SessDeEnvs ==
    [priv : TokenStates, com : {"ok", "ShellExecute"}, task : {"ok", "run task"},
     token : {"ok", "CreateProcessWithTokenW"}, direct : {"ok", "CreateProcess"},
     pid : Pids]

\* the session and token APIs of lines 43-68
SessionApis ==
    {"WTSGetActiveConsoleSessionId", "WTSQueryUserToken", "DuplicateTokenEx",
     "CreateProcessAsUser+BREAKAWAY", "CreateProcessAsUser",
     "CreateProcessWithTokenW"}

\* a process calls LaunchAsSessionUser(exePath); a process with the
\* target's executable name may be running already
InitSess ==
    /\ IdleSelfDelete
    /\ IdleResidual
    /\ IdleProgress
    /\ IdleArgs
    /\ IdleElev
    /\ IdleSteps
    /\ IdleInstance
    /\ deElevation \in [pc : {"idle"}, env : SessDeEnvs, tried : {<<>>}, ret : {NoRet}]
    /\ session \in [pc : {"start"},
                    account : Accounts,
                    calls : {<<>>},
                    task : {"none"},
                    child : {"none"},
                    running : BOOLEAN,
                    started : {FALSE},
                    verified : {FALSE},
                    clock : {0},
                    ret : {NoRet}]

Called(api, ok) == Append(session.calls, [api |-> api, ok |-> ok])

\* a return of LaunchAsSessionUser
sessReturn(calls, pid, err) ==
    [session EXCEPT !.calls = calls, !.pc = "returned", !.ret = Returned(pid, err)]

\* after an API call that ends the function when it fails
sessPrepared(api, ok, next, err) ==
    IF ok
    THEN [session EXCEPT !.calls = Called(api, TRUE), !.pc = next]
    ELSE sessReturn(Called(api, FALSE), 0, <<err>>)

\* lines 34-35: if !isRunningAsSystem() call LaunchDeElevated
LaunchAsSessionUser ==
    /\ session.pc = "start"
    /\ IF ~isRunningAsSystem(session.account)
       THEN /\ deElevation.pc = "idle"
            /\ deElevation' = [deElevation EXCEPT !.pc = "start"]
            /\ session' = [session EXCEPT !.pc = "de"]
       ELSE /\ session' = [session EXCEPT !.pc = "console"]
            /\ UNCHANGED deElevation
    /\ UNCHANGED <<sdVars, residual, progress, handover, elevation, steps, instance>>

\* mutant: LaunchDeElevated's pid is returned whatever its error
deElevatedReturnedAnyway ==
    /\ session.pc = "de"
    /\ deElevation.pc = "returned"
    /\ session' = sessReturn(Called("LaunchDeElevated", deElevation.ret.err = <<>>),
                             deElevation.ret.pid, <<>>)
    /\ UNCHANGED <<sdVars, residual, progress, handover, elevation, deElevation, steps, instance>>

\* lines 35-38: LaunchDeElevated returned; on an error the function goes on
deElevatedReturned ==
    /\ session.pc = "de"
    /\ deElevation.pc = "returned"
    /\ IF deElevation.ret.err = <<>>
       THEN session' = sessReturn(Called("LaunchDeElevated", TRUE), deElevation.ret.pid, <<>>)
       ELSE session' = [session EXCEPT !.calls = Called("LaunchDeElevated", FALSE), !.pc = "console"]
    /\ UNCHANGED <<sdVars, residual, progress, handover, elevation, deElevation, steps, instance>>

\* lines 43-46
WTSGetActiveConsoleSessionId ==
    /\ session.pc = "console"
    /\ \E ok \in BOOLEAN :
        session' = sessPrepared("WTSGetActiveConsoleSessionId", ok, "query", "no active console session")
    /\ UNCHANGED <<sdVars, residual, progress, handover, elevation, deElevation, steps, instance>>

\* lines 49-53
WTSQueryUserToken ==
    /\ session.pc = "query"
    /\ \E ok \in BOOLEAN :
        session' = sessPrepared("WTSQueryUserToken", ok, "duplicate", "query user token")
    /\ UNCHANGED <<sdVars, residual, progress, handover, elevation, deElevation, steps, instance>>

\* lines 56-68
DuplicateTokenEx ==
    /\ session.pc = "duplicate"
    /\ \E ok \in BOOLEAN :
        session' = sessPrepared("DuplicateTokenEx", ok, "environment", "duplicate token")
    /\ UNCHANGED <<sdVars, residual, progress, handover, elevation, deElevation, steps, instance>>

\* lines 71-75
CreateEnvironmentBlock ==
    /\ session.pc = "environment"
    /\ \E ok \in BOOLEAN :
        session' = sessPrepared("CreateEnvironmentBlock", ok, "paths", "create environment block")
    /\ UNCHANGED <<sdVars, residual, progress, handover, elevation, deElevation, steps, instance>>

\* lines 85-93: exePath and its directory as UTF-16
UTF16PtrFromString ==
    /\ session.pc = "paths"
    /\ \E r \in {"ok", "invalid exe path", "invalid work dir"} :
        IF r = "ok"
        THEN session' = [session EXCEPT !.pc = "create"]
        ELSE session' = sessReturn(session.calls, 0, <<r>>)
    /\ UNCHANGED <<sdVars, residual, progress, handover, elevation, deElevation, steps, instance>>

\* after a process-creation call: pi.ProcessId on success (pid # 0), else
\* the next attempt
sessCreated(api, pid, next) ==
    IF pid # 0
    THEN sessReturn(Called(api, TRUE), pid, <<>>)
    ELSE [session EXCEPT !.calls = Called(api, FALSE), !.pc = next]

\* mutant: no second CreateProcessAsUser when the job refuses breakaway
CreateProcessAsUserNoRetry ==
    /\ session.pc = "create"
    /\ \E pid \in Pids \cup {0} :
        session' = sessCreated("CreateProcessAsUser+BREAKAWAY", pid, "withToken")
    /\ UNCHANGED <<sdVars, residual, progress, handover, elevation, deElevation, steps, instance>>

\* lines 103-116: CreateProcessAsUser with CREATE_BREAKAWAY_FROM_JOB
CreateProcessAsUserBreakaway ==
    /\ session.pc = "create"
    /\ \E pid \in Pids \cup {0} :
        session' = sessCreated("CreateProcessAsUser+BREAKAWAY", pid, "retry")
    /\ UNCHANGED <<sdVars, residual, progress, handover, elevation, deElevation, steps, instance>>

\* lines 117-134 and 157-160: the same without the flag
CreateProcessAsUser ==
    /\ session.pc = "retry"
    /\ \E pid \in Pids \cup {0} :
        session' = sessCreated("CreateProcessAsUser", pid, "withToken")
    /\ UNCHANGED <<sdVars, residual, progress, handover, elevation, deElevation, steps, instance>>

\* lines 138-140, createProcessWithToken (163-194)
createProcessWithToken ==
    /\ session.pc = "withToken"
    /\ \E pid \in Pids \cup {0} :
        session' = sessCreated("CreateProcessWithTokenW", pid, "lookup")
    /\ UNCHANGED <<sdVars, residual, progress, handover, elevation, deElevation, steps, instance>>

\* launchViaScheduledTaskForUser 214-221: GetTokenUser, LookupAccount; on
\* error line 147
LookupAccount ==
    /\ session.pc = "lookup"
    /\ \E r \in {"ok", "get token user", "lookup account"} :
        IF r = "ok"
        THEN session' = [session EXCEPT !.calls = Called("schtasks", TRUE),
                                        !.pc = "schtasks", !.task = "create"]
        ELSE session' = sessReturn(Called("schtasks", FALSE), 0,
                        <<"CreateProcessAsUser", "schtasks fallback", r>>)
    /\ UNCHANGED <<sdVars, residual, progress, handover, elevation, deElevation, steps, instance>>

\* runHidden (clipboard_darwin.go 219-226): cmd.Run() starts schtasks.exe
\* and waits for it
runHidden ==
    /\ session.pc = "schtasks"
    /\ session.child = "none"
    /\ session' = [session EXCEPT !.child = "started"]
    /\ UNCHANGED <<sdVars, residual, progress, handover, elevation, deElevation, steps, instance>>

\* schtasks.exe exits, with status 0 or not
childExit ==
    /\ session.child = "started"
    /\ \E r \in {"ok", "failed"} : session' = [session EXCEPT !.child = r]
    /\ UNCHANGED <<sdVars, residual, progress, handover, elevation, deElevation, steps, instance>>

\* launchViaScheduledTaskForUser 230-255 after each runHidden returned:
\* /create, /run, time.Sleep(1s), /delete; lines 146-148 on an error
launchViaScheduledTaskForUser ==
    /\ session.pc = "schtasks"
    /\ session.child \in {"ok", "failed"}
    /\ LET ok == session.child = "ok"
           fail(r) == [session EXCEPT !.child = "none", !.task = "none", !.pc = "returned",
                          !.ret = Returned(0, <<"CreateProcessAsUser", "schtasks fallback", r>>)]
       IN session' =
            CASE session.task = "create" ->
                    IF ok THEN [session EXCEPT !.child = "none", !.task = "run"]
                    ELSE fail("create task")
              [] session.task = "run" ->
                    [session EXCEPT !.child = "none",
                                    !.task = IF ok THEN "delete" ELSE "deleteAfterError"]
              [] session.task = "delete" ->
                    [session EXCEPT !.child = "none", !.task = "none", !.pc = "poll"]
              [] session.task = "deleteAfterError" -> fail("run task")
    /\ UNCHANGED <<sdVars, residual, progress, handover, elevation, deElevation, steps, instance>>

\* the task scheduler starts the target, at some time or never; a process
\* of that name may be running already
targetStarts ==
    /\ session.pc \in {"schtasks", "poll"}
    /\ session.task \in {"delete", "none"}
    /\ ~session.started
    /\ session' = [session EXCEPT !.running = TRUE, !.started = TRUE]
    /\ UNCHANGED <<sdVars, residual, progress, handover, elevation, deElevation, steps, instance>>

\* mutant: the scheduler's return code is trusted
waitForProcessByNameBlind ==
    /\ session.pc = "poll"
    /\ session' = [session EXCEPT !.pc = "returned", !.ret = Returned(0, <<>>)]
    /\ UNCHANGED <<sdVars, residual, progress, handover, elevation, deElevation, steps, instance>>

\* waitForProcessByName (196-205), one turn of the loop or the last look,
\* and lines 151-154
waitForProcessByName ==
    /\ session.pc = "poll"
    /\ IF session.running
       THEN session' = [session EXCEPT !.verified = TRUE, !.pc = "returned",
                                       !.ret = Returned(0, <<>>)]
       ELSE IF session.clock < pollTimeout * pollsPerSecond
            THEN session' = [session EXCEPT !.clock = @ + 1]
            ELSE session' = [session EXCEPT !.pc = "returned",
                                !.ret = Returned(0, <<"schtasks fallback did not start process">>)]
    /\ UNCHANGED <<sdVars, residual, progress, handover, elevation, deElevation, steps, instance>>

\* the launcher's own steps
SessStep ==
    \/ LaunchAsSessionUser
    \/ deElevatedReturned
    \/ WTSGetActiveConsoleSessionId
    \/ WTSQueryUserToken
    \/ DuplicateTokenEx
    \/ CreateEnvironmentBlock
    \/ UTF16PtrFromString
    \/ CreateProcessAsUserBreakaway
    \/ CreateProcessAsUser
    \/ createProcessWithToken
    \/ LookupAccount
    \/ runHidden
    \/ launchViaScheduledTaskForUser
    \/ waitForProcessByName
    \/ NextDe

\* the launcher and what happens around it
NextSess == SessStep \/ childExit \/ targetStarts

SpecSess == InitSess /\ [][NextSess]_vars

\* every step of the launcher that can be taken is taken in the end; the
\* helper process and the task scheduler owe nothing
SpecSessFair == SpecSess /\ WF_vars(SessStep)

\* ------------------------------------------------------------ RunSteps
\* what a step's Action returns: done, Skip set, Err set
StepResults == {"ok", "skip", "err"}

\* webflow.IsClose (types.go 32-35): a Close or Cancel navigation
IsClose(resp) == resp \in {"close", "cancel"}

\* RunSteps / RunStepsWithCancel are called with a list of steps; the main
\* thread runs the event loop, a goroutine runs the steps
InitSteps ==
    /\ IdleSelfDelete
    /\ IdleResidual
    /\ IdleProgress
    /\ IdleArgs
    /\ IdleElev
    /\ IdleDe
    /\ IdleSess
    /\ IdleInstance
    /\ steps \in [pc : {"start"},
                  work : {"none"},
                  list : SeqsUpTo(StepResults, MaxSteps),
                  returnCancelled : BOOLEAN,
                  i : {0},
                  execErr : {"nil"},
                  progressCancelled : {FALSE},
                  responseCh : {"empty"},
                  quit : {FALSE},
                  result : {"none"},
                  ret : {"none"}]

\* ShowProgress (part_025 927-973): progressCancelled.Store(false), the work
\* goroutine is started, quitOnMsg = true, wv.Run()
ShowProgress ==
    /\ steps.pc = "start"
    /\ steps' = [steps EXCEPT !.progressCancelled = FALSE, !.work = "check", !.pc = "run"]
    /\ UNCHANGED <<sdVars, residual, progress, handover, elevation, deElevation, session, instance>>

\* runStepsInternal 206-214 and 254-258: the loop head with p.Cancelled(),
\* or the end of the loop
stepCheck ==
    /\ steps.work = "check"
    /\ steps' =
        IF steps.i = Len(steps.list) THEN [steps EXCEPT !.work = "done"]
        ELSE IF steps.progressCancelled
             THEN [steps EXCEPT !.execErr = "ErrCancelled", !.work = "done"]
             ELSE [steps EXCEPT !.work = "action"]
    /\ UNCHANGED <<sdVars, residual, progress, handover, elevation, deElevation, session, instance>>

\* runStepsInternal 216-252: step.Action(); an error ends the loop
stepAction ==
    /\ steps.work = "action"
    /\ steps' =
        IF steps.list[steps.i + 1] = "err"
        THEN [steps EXCEPT !.execErr = "err", !.work = "done"]
        ELSE [steps EXCEPT !.i = @ + 1, !.work = "check"]
    /\ UNCHANGED <<sdVars, residual, progress, handover, elevation, deElevation, session, instance>>

\* ShowProgress 952-963: work returned; Quit unless cancelled
workReturned ==
    /\ steps.work = "done"
    /\ steps' = [steps EXCEPT !.work = "finished",
                              !.quit = IF steps.progressCancelled THEN @ ELSE TRUE]
    /\ UNCHANGED <<sdVars, residual, progress, handover, elevation, deElevation, session, instance>>

\* the user clicks Cancel while the progress page is shown: the message
\* handler (part_025 202-217) puts it into responseCh and, quitOnMsg being
\* set, calls Quit
clickCancel ==
    /\ steps.pc = "run"
    /\ steps.responseCh = "empty"
    /\ steps' = [steps EXCEPT !.responseCh = "cancel", !.quit = TRUE]
    /\ UNCHANGED <<sdVars, residual, progress, handover, elevation, deElevation, session, instance>>

\* ShowProgress 973-999: Run() returned; a Cancel message in responseCh
\* makes the call return the Cancel navigation, else nil (part_025 2500-2503)
runReturned ==
    /\ steps.pc = "run"
    /\ steps.quit
    /\ steps' =
        IF steps.responseCh = "cancel"
        THEN [steps EXCEPT !.responseCh = "empty", !.progressCancelled = TRUE,
                           !.result = "cancel", !.pc = "after"]
        ELSE [steps EXCEPT !.result = "nil", !.pc = "after"]
    /\ UNCHANGED <<sdVars, residual, progress, handover, elevation, deElevation, session, instance>>

\* runStepsInternal 261-269
runStepsInternal ==
    /\ steps.pc = "after"
    /\ steps' = [steps EXCEPT !.pc = "returned",
            !.ret = IF IsClose(steps.result)
                    THEN IF steps.returnCancelled THEN "ErrCancelled" ELSE "nil"
                    ELSE steps.execErr]
    /\ UNCHANGED <<sdVars, residual, progress, handover, elevation, deElevation, session, instance>>

NextSteps ==
    \/ ShowProgress
    \/ stepCheck
    \/ stepAction
    \/ workReturned
    \/ clickCancel
    \/ runReturned
    \/ runStepsInternal

SpecSteps == InitSteps /\ [][NextSteps]_vars

\* ------------------------------------------------ AcquireSingleInstance
\* processes calling AcquireSingleInstance with the same name
Procs == 1..NumProcs

\* nobody has called AcquireSingleInstance yet: no mutex object, no lock file
InitInstance ==
    /\ IdleSelfDelete
    /\ IdleResidual
    /\ IdleProgress
    /\ IdleArgs
    /\ IdleElev
    /\ IdleDe
    /\ IdleSess
    /\ IdleSteps
    /\ instance \in [platform : {"windows", "darwin"},
                     pc : {[p \in Procs |-> "idle"]},
                     ok : {[p \in Procs |-> "none"]},
                     handle : {[p \in Procs |-> FALSE]},
                     file : {[p \in Procs |-> None]},
                     lockPath : {None},
                     flock : {[f \in 1..MaxFiles |-> None]},
                     created : {0}]

\* a handle on the mutex object Global\name is open, so the object exists
MutexExists == \E q \in Procs : instance.handle[q]

\* instance_windows.go 24-40: CreateMutex.  The object exists: a handle and
\* ERROR_ALREADY_EXISTS; it does not: it is created; any other error (the
\* object belongs to another user and access is denied, no resources):
\* handle 0, and the function returns (release, true).
CreateMutex(p) ==
    /\ instance.platform = "windows"
    /\ instance.pc[p] = "idle"
    /\ \E otherError \in BOOLEAN :
        instance' =
            IF otherError
            THEN [instance EXCEPT !.pc[p] = "held", !.ok[p] = "true"]
            ELSE IF MutexExists
                 THEN [instance EXCEPT !.handle[p] = TRUE, !.pc[p] = "exists"]
                 ELSE [instance EXCEPT !.handle[p] = TRUE, !.pc[p] = "held", !.ok[p] = "true"]
    /\ UNCHANGED <<sdVars, residual, progress, handover, elevation, deElevation, session, steps>>

\* instance_windows.go 29-35: CloseHandle(handle); return nil, false
closeExisting(p) ==
    /\ instance.pc[p] = "exists"
    /\ instance' = [instance EXCEPT !.handle[p] = FALSE, !.pc[p] = "idle", !.ok[p] = "false"]
    /\ UNCHANGED <<sdVars, residual, progress, handover, elevation, deElevation, session, steps>>

\* the release function of instance_windows.go 37, 40: CloseHandle(handle)
releaseMutex(p) ==
    /\ instance.platform = "windows"
    /\ instance.pc[p] = "held"
    /\ instance' = [instance EXCEPT !.handle[p] = FALSE, !.pc[p] = "idle", !.ok[p] = "none"]
    /\ UNCHANGED <<sdVars, residual, progress, handover, elevation, deElevation, session, steps>>

\* selfdelete_other.go 129-132: os.OpenFile(lockPath, O_CREATE|O_RDWR): the
\* file at lockPath, a new file when there is none, or an error
OpenFile(p) ==
    /\ instance.platform = "darwin"
    /\ instance.pc[p] = "idle"
    /\ \/ instance' = [instance EXCEPT !.ok[p] = "false"]
       \/ /\ instance.lockPath # None
          /\ instance' = [instance EXCEPT !.file[p] = instance.lockPath, !.pc[p] = "flock"]
       \/ /\ instance.lockPath = None
          /\ instance.created < MaxFiles
          /\ instance' = [instance EXCEPT !.created = @ + 1,
                                          !.lockPath = instance.created + 1,
                                          !.file[p] = instance.created + 1,
                                          !.pc[p] = "flock"]
    /\ UNCHANGED <<sdVars, residual, progress, handover, elevation, deElevation, session, steps>>

\* selfdelete_other.go 135-144: syscall.Flock(fd, LOCK_EX|LOCK_NB); on
\* error file.Close() and return nil, false
Flock(p) ==
    /\ instance.pc[p] = "flock"
    /\ instance' =
        IF instance.flock[instance.file[p]] = None
        THEN [instance EXCEPT !.flock[instance.file[p]] = p,
                              !.pc[p] = "held", !.ok[p] = "true"]
        ELSE [instance EXCEPT !.file[p] = None, !.pc[p] = "idle", !.ok[p] = "false"]
    /\ UNCHANGED <<sdVars, residual, progress, handover, elevation, deElevation, session, steps>>

\* release, selfdelete_other.go 147: syscall.Flock(fd, LOCK_UN)
FlockUnlock(p) ==
    /\ instance.platform = "darwin"
    /\ instance.pc[p] = "held"
    /\ instance' = [instance EXCEPT !.flock[instance.file[p]] = None,
                                    !.pc[p] = "close", !.ok[p] = "none"]
    /\ UNCHANGED <<sdVars, residual, progress, handover, elevation, deElevation, session, steps>>

\* release, selfdelete_other.go 148: file.Close()
fileClose(p) ==
    /\ instance.pc[p] = "close"
    /\ instance' = [instance EXCEPT !.file[p] = None, !.pc[p] = "remove"]
    /\ UNCHANGED <<sdVars, residual, progress, handover, elevation, deElevation, session, steps>>

\* release, selfdelete_other.go 149: os.Remove(lockPath) unlinks whatever
\* file has that name now
osRemoveLockPath(p) ==
    /\ instance.pc[p] = "remove"
    /\ instance' = [instance EXCEPT !.lockPath = None, !.pc[p] = "idle"]
    /\ UNCHANGED <<sdVars, residual, progress, handover, elevation, deElevation, session, steps>>

NextInstance ==
    \E p \in Procs :
        \/ CreateMutex(p)
        \/ closeExisting(p)
        \/ releaseMutex(p)
        \/ OpenFile(p)
        \/ Flock(p)
        \/ FlockUnlock(p)
        \/ fileClose(p)
        \/ osRemoveLockPath(p)

SpecInstance == InitInstance /\ [][NextInstance]_vars

\* ----------------------- CleanupResidualTempDirs: the list and the deadline
\* One call of CleanupResidualTempDirs (358-386) with the paths as strings,
\* the kind of each directory entry, the counter and the deadline; no other
\* process changes the entries meanwhile.
tempDirPrefix == <<"u","n","i","n","s","t","a","l","l","-">>
tempDirSuffix == <<".","t","m","p">>
tempExeName == <<"_","u","n","i","n","s",".","t","m","p">>
\* os.TempDir()
osTempDir == <<"C",":","\\","T","e","m","p">>

\* filepath.Join of a directory and a name
filepathJoin(dir, name) == dir \o <<"\\">> \o name

\* strings.EqualFold on the characters modelled (letters, digits, separators)
EqualFold(str, t) ==
    /\ Len(str) = Len(t)
    /\ \A i \in 1..Len(str) : ToUpperChar(str[i]) = ToUpperChar(t[i])

\* mutant: the paths are compared as they are written
SamePath(str, t) == str = t

\* the names filepath.Glob can return
DirNames ==
    {filepathJoin(osTempDir, tempDirPrefix \o x \o tempDirSuffix) : x \in {<<"a","1">>, <<"B","2">>}}

\* os.Executable() of the calling process: an installer, or a temp copy as
\* the system reports its path (the case of the letters may differ from the
\* Glob result's)
SelfExes ==
    PathPool
    \cup {filepathJoin(d, tempExeName) : d \in DirNames}
    \cup {Lowered(filepathJoin(d, tempExeName)) : d \in DirNames}

\* what a name of the Glob result is on disk: a directory, a reparse point
\* (junction or symbolic link to a directory), or a file.  exe and marker:
\* _unins.tmp and _unins-done.tmp as reached through the name (for a reparse
\* point: the files of the directory it points to).
Kinds == {"dir", "reparse", "file"}
NoCand == [name |-> <<>>, kind |-> "none", exe |-> FALSE, marker |-> FALSE]
Candidates ==
    {c \in [name : DirNames, kind : Kinds, exe : BOOLEAN, marker : BOOLEAN] :
        c.kind = "file" => ~c.exe /\ ~c.marker}

\* the loop checks the deadline only after this many directories (378)
minChecked == 10
\* most names the Glob returns
MaxDirs == 12

InCall == {"self", "open", "attrs", "done", "stale", "rmexe", "rmrest"}

InitResidual ==
    /\ IdleSelfDelete
    /\ IdleProgress
    /\ IdleArgs
    /\ IdleElev
    /\ IdleDe
    /\ IdleSess
    /\ IdleSteps
    /\ IdleInstance
    /\ residual \in [pc : {"glob"},
                     n : 0..MaxDirs,
                     checked : {0},
                     expired : {FALSE},
                     selfExe : SelfExes,
                     dir : {NoCand},
                     before : {NoCand},
                     ret : {"none"}]

\* 362-373: filepath.Glob (an error returns nil), os.Executable, the deadline
Glob ==
    /\ residual.pc = "glob"
    /\ \E ok \in BOOLEAN :
        residual' = IF ok THEN [residual EXCEPT !.pc = "loop"]
                    ELSE [residual EXCEPT !.pc = "returned", !.ret = "nil"]
    /\ UNCHANGED <<sdVars, progress, handover, elevation, deElevation, session, steps, instance>>

\* 376, 385: the range is exhausted, return nil
loopEnd ==
    /\ residual.pc = "loop"
    /\ residual.checked = residual.n
    /\ residual' = [residual EXCEPT !.pc = "returned", !.ret = "nil"]
    /\ UNCHANGED <<sdVars, progress, handover, elevation, deElevation, session, steps, instance>>

\* 378-380: break, then return nil
deadlineBreak ==
    /\ residual.pc = "loop"
    /\ residual.checked < residual.n
    /\ residual.checked >= minChecked /\ residual.expired
    /\ residual' = [residual EXCEPT !.pc = "returned", !.ret = "nil"]
    /\ UNCHANGED <<sdVars, progress, handover, elevation, deElevation, session, steps, instance>>

\* 378, 381: the check lets the loop go on; tryDeleteUninstallDir is called
\* on the next name
loopCall ==
    /\ residual.pc = "loop"
    /\ residual.checked < residual.n
    /\ ~(residual.checked >= minChecked /\ residual.expired)
    /\ \E c \in Candidates :
        residual' = [residual EXCEPT !.pc = "self", !.dir = c, !.before = c]
    /\ UNCHANGED <<sdVars, progress, handover, elevation, deElevation, session, steps, instance>>

\* 382: tryDeleteUninstallDir has returned; checked++
checkedInc ==
    /\ residual.pc = "back"
    /\ residual' = [residual EXCEPT !.pc = "loop", !.checked = @ + 1,
                                    !.dir = NoCand, !.before = NoCand]
    /\ UNCHANGED <<sdVars, progress, handover, elevation, deElevation, session, steps, instance>>

\* mutant: the own directory is recognised only when the two paths are
\* written the same way
skipSelfExact ==
    /\ residual.pc = "self"
    /\ residual' = IF SamePath(filepathJoin(residual.dir.name, tempExeName), residual.selfExe)
                   THEN [residual EXCEPT !.pc = "back"]
                   ELSE [residual EXCEPT !.pc = "open"]
    /\ UNCHANGED <<sdVars, progress, handover, elevation, deElevation, session, steps, instance>>

\* 391-396: skip the calling process's own directory
skipSelf ==
    /\ residual.pc = "self"
    /\ residual' = IF EqualFold(filepathJoin(residual.dir.name, tempExeName), residual.selfExe)
                   THEN [residual EXCEPT !.pc = "back"]
                   ELSE [residual EXCEPT !.pc = "open"]
    /\ UNCHANGED <<sdVars, progress, handover, elevation, deElevation, session, steps, instance>>

\* 402-414: CreateFile on the name itself (FILE_FLAG_OPEN_REPARSE_POINT,
\* FILE_FLAG_BACKUP_SEMANTICS); it fails when another process holds the entry
createFileDir ==
    /\ residual.pc = "open"
    /\ \E ok \in BOOLEAN :
        residual' = IF ok THEN [residual EXCEPT !.pc = "attrs"]
                    ELSE [residual EXCEPT !.pc = "back"]
    /\ UNCHANGED <<sdVars, progress, handover, elevation, deElevation, session, steps, instance>>

\* mutant: the attributes are read and not looked at
getFileInformationIgnored ==
    /\ residual.pc = "attrs"
    /\ residual' = [residual EXCEPT !.pc = "done"]
    /\ UNCHANGED <<sdVars, progress, handover, elevation, deElevation, session, steps, instance>>

\* 417-426: GetFileInformationByHandle; return unless the entry is a
\* directory and not a reparse point
getFileInformation ==
    /\ residual.pc = "attrs"
    /\ \E ok \in BOOLEAN :
        LET isDir == residual.dir.kind \in {"dir", "reparse"}
            isReparsePoint == residual.dir.kind = "reparse"
        IN residual' = IF ~ok \/ ~isDir \/ isReparsePoint
                       THEN [residual EXCEPT !.pc = "back"]
                       ELSE [residual EXCEPT !.pc = "done"]
    /\ UNCHANGED <<sdVars, progress, handover, elevation, deElevation, session, steps, instance>>

\* 431-441, 452: CreateFile on dir\_unins-done.tmp, a path that is resolved
\* through the name; it fails when the file is absent or held
createFileDone ==
    /\ residual.pc = "done"
    /\ \E free \in BOOLEAN :
        residual' = IF residual.dir.marker /\ free
                    THEN [residual EXCEPT !.pc = "rmexe"]
                    ELSE [residual EXCEPT !.pc = "stale"]
    /\ UNCHANGED <<sdVars, progress, handover, elevation, deElevation, session, steps, instance>>

\* 441-451: isOlderThan5Minutes, os.Remove(dir); the removal by path meets
\* the directory handle of 402, still open
removeStale ==
    /\ residual.pc = "stale"
    /\ residual' = [residual EXCEPT !.pc = "back"]
    /\ UNCHANGED <<sdVars, progress, handover, elevation, deElevation, session, steps, instance>>

\* 454-457: os.Remove(dir\_unins.tmp), by path; an error (no such file, a
\* running image) returns
removeUninsExe ==
    /\ residual.pc = "rmexe"
    /\ \E ok \in BOOLEAN :
        residual' = IF residual.dir.exe /\ ok
                    THEN [residual EXCEPT !.pc = "rmrest", !.dir.exe = FALSE]
                    ELSE [residual EXCEPT !.pc = "back"]
    /\ UNCHANGED <<sdVars, progress, handover, elevation, deElevation, session, steps, instance>>

\* 459-464: os.Remove(doneFile), os.Remove(dir), by path, while the handles
\* of 402 and 432 are open: both are refused
removeDoneFile ==
    /\ residual.pc = "rmrest"
    /\ residual' = [residual EXCEPT !.pc = "back"]
    /\ UNCHANGED <<sdVars, progress, handover, elevation, deElevation, session, steps, instance>>

\* time.Now() passes the deadline while a system call is under way
deadlinePasses ==
    /\ residual.pc \in InCall \ {"self"}
    /\ ~residual.expired
    /\ residual' = [residual EXCEPT !.expired = TRUE]
    /\ UNCHANGED <<sdVars, progress, handover, elevation, deElevation, session, steps, instance>>

NextResidual ==
    \/ Glob
    \/ loopEnd
    \/ deadlineBreak
    \/ loopCall
    \/ checkedInc
    \/ skipSelf
    \/ createFileDir
    \/ getFileInformation
    \/ createFileDone
    \/ removeStale
    \/ removeUninsExe
    \/ removeDoneFile
    \/ deadlinePasses

SpecResidual == InitResidual /\ [][NextResidual]_vars

\* --------------------------------- progress file (installer/ipc.go)
\* The elevated child appends lines with ProgressWriter; the parent polls
\* them with ProgressReader.ReadNewLines, which opens the file anew at each
\* call and keeps only a byte offset.  The file is a sequence of bytes.
IPCPrefixPID == <<"P","I","D",":">>
IPCPrefixProgress == <<"P","R","O","G","R","E","S","S",":">>
IPCPrefixResult == <<"R","E","S","U","L","T",":">>

\* most lines the child writes
MaxLines == 2

NoLine == [ok |-> FALSE, Type |-> "", PID |-> 0, Percent |-> 0, Message |-> <<>>, RawResult |-> <<>>]

\* what the child hands to WritePID, WriteProgress (percent in tenths) and
\* WriteResult (the JSON text of the result), as the ProgressLine the parent
\* is to get
Writes ==
    { [NoLine EXCEPT !.ok = TRUE, !.Type = "PID", !.PID = 7],
      [NoLine EXCEPT !.ok = TRUE, !.Type = "PROGRESS", !.Percent = 125, !.Message = <<"a","b">>],
      [NoLine EXCEPT !.ok = TRUE, !.Type = "RESULT", !.RawResult = <<"{","}">>] }

\* fmt.Sprintf("%.1f", percent)
FormatFloat1(tenths) == FormatUint(tenths \div 10) \o <<".">> \o FormatUint(tenths % 10)

\* WritePID / WriteProgress / WriteResult (36-54): the text of the line
formatLine(w) ==
    CASE w.Type = "PID" -> IPCPrefixPID \o FormatUint(w.PID)
      [] w.Type = "PROGRESS" -> IPCPrefixProgress \o FormatFloat1(w.Percent) \o <<":">> \o w.Message
      [] OTHER -> IPCPrefixResult \o w.RawResult

\* strconv.ParseFloat(str, 64) on decimal texts without sign and exponent,
\* the value in tenths: "12.5", "12.", ".5", "12"
ParseFloat(str) ==
    LET dot == Index(str, ".")
        intPart == IF dot < 0 THEN str ELSE SubSeq(str, 1, dot)
        frac == IF dot < 0 THEN <<>> ELSE SliceFrom(str, dot + 1)
        i == ParseUint(intPart)
        f == ParseUint(frac)
    IN IF (intPart = <<>> /\ frac = <<>>) \/ (intPart # <<>> /\ ~i.ok) \/ (frac # <<>> /\ ~f.ok)
       THEN [ok |-> FALSE, val |-> 0]
       ELSE [ok |-> TRUE,
             val |-> (IF intPart = <<>> THEN 0 ELSE i.val * 10)
                     + (IF frac = <<>> THEN 0 ELSE ParseUint(<<frac[1]>>).val)]

\* parseLine (124-161)
parseLine(line) ==
    IF HasPrefix(line, IPCPrefixPID)
    THEN LET pid == ParseUint(SliceFrom(line, Len(IPCPrefixPID)))
         IN IF ~pid.ok THEN NoLine
            ELSE [NoLine EXCEPT !.ok = TRUE, !.Type = "PID", !.PID = pid.val]
    ELSE IF HasPrefix(line, IPCPrefixProgress)
    THEN LET rest == SliceFrom(line, Len(IPCPrefixProgress))
             colonIdx == Index(rest, ":")
             percent == ParseFloat(SubSeq(rest, 1, colonIdx))
         IN IF colonIdx < 0 \/ ~percent.ok THEN NoLine
            ELSE [NoLine EXCEPT !.ok = TRUE, !.Type = "PROGRESS", !.Percent = percent.val,
                                !.Message = SliceFrom(rest, colonIdx + 1)]
    ELSE IF HasPrefix(line, IPCPrefixResult)
    THEN [NoLine EXCEPT !.ok = TRUE, !.Type = "RESULT",
                        !.RawResult = SliceFrom(line, Len(IPCPrefixResult))]
    ELSE NoLine

\* bufio.ScanLines: dropCR
dropCR(data) ==
    IF Len(data) > 0 /\ data[Len(data)] = "\r" THEN SubSeq(data, 1, Len(data) - 1) ELSE data

RECURSIVE ScanLines(_)
\* the tokens scanner.Scan() yields on data up to end of file (bufio.ScanLines):
\* the text before each newline, and at end of file what is left, if anything
ScanLines(data) ==
    IF data = <<>> THEN <<>>
    ELSE LET i == Index(data, "\n")
         IN IF i >= 0
            THEN <<dropCR(SubSeq(data, 1, i))>> \o ScanLines(SliceFrom(data, i + 1))
            ELSE <<dropCR(data)>>

RECURSIVE SumLen(_)
\* bytesRead of the loop 111-119: len(scanner.Bytes()) + 1 per token
SumLen(tokens) ==
    IF tokens = <<>> THEN 0 ELSE Len(tokens[1]) + 1 + SumLen(Tail(tokens))

\* the loop 111-119: the lines parseLine accepts
parsedLines(tokens) ==
    LET all == [i \in 1..Len(tokens) |-> parseLine(tokens[i])]
    IN SelectSeq(all, LAMBDA l : l.ok)

InitProgress ==
    /\ IdleSelfDelete
    /\ IdleResidual
    /\ IdleArgs
    /\ IdleElev
    /\ IdleDe
    /\ IdleSess
    /\ IdleSteps
    /\ IdleInstance
    /\ progress = [file |-> <<>>,       \* CreateProgressFile: empty
                   pending |-> <<>>,    \* bytes of the current Write not yet in the file
                   line |-> NoLine,     \* the line being written
                   written |-> <<>>,    \* lines whose Write has completed
                   offset |-> 0,        \* ProgressReader.offset
                   out |-> <<>>,        \* all lines ReadNewLines has returned
                   fresh |-> FALSE]     \* ReadNewLines has run since the last write

\* writeLine (64-70): fmt.Fprintln(w.f, line), one Write of line + "\n";
\* the bytes reach the file at once, or a reader can see the file with only
\* a part of them appended
writeLine ==
    /\ progress.pending = <<>>
    /\ Len(progress.written) < MaxLines
    /\ \E w \in Writes :
        LET bytes == formatLine(w) \o <<"\n">>
        IN \E cut \in 1..Len(bytes) :
            progress' = [progress EXCEPT
                !.file = @ \o SubSeq(bytes, 1, cut),
                !.pending = SubSeq(bytes, cut + 1, Len(bytes)),
                !.line = IF cut = Len(bytes) THEN NoLine ELSE w,
                !.written = IF cut = Len(bytes) THEN Append(@, w) ELSE @,
                !.fresh = FALSE]
    /\ UNCHANGED <<sdVars, residual, handover, elevation, deElevation, session, steps, instance>>

\* the rest of the Write reaches the file; f.Sync()
writeRest ==
    /\ progress.pending # <<>>
    /\ progress' = [progress EXCEPT
            !.file = @ \o progress.pending,
            !.pending = <<>>,
            !.line = NoLine,
            !.written = Append(@, progress.line),
            !.fresh = FALSE]
    /\ UNCHANGED <<sdVars, residual, handover, elevation, deElevation, session, steps, instance>>

\* ReadNewLines (94-122): os.Open, Seek(r.offset), scan to end of file,
\* r.offset += bytesRead.  An os.Open error returns without any change.
ReadNewLines ==
    /\ LET data == IF progress.offset >= Len(progress.file) THEN <<>>
                   ELSE SubSeq(progress.file, progress.offset + 1, Len(progress.file))
           tokens == ScanLines(data)
       IN progress' = [progress EXCEPT
            !.out = @ \o parsedLines(tokens),
            !.offset = @ + SumLen(tokens),
            !.fresh = TRUE]
    /\ ~progress.fresh
    /\ UNCHANGED <<sdVars, residual, handover, elevation, deElevation, session, steps, instance>>

NextProgress == writeLine \/ writeRest \/ ReadNewLines

SpecProgress == InitProgress /\ [][NextProgress]_vars

\* ================================================================ claims
ScannerStep == kVars' # kVars
ScannersIdle == \A k \in Scanners : pcK[k] \in {"idle", "off"}

\* C1: whenever the completion signal has been sent, the original executable
\* is unlinked, or renamed aside and scheduled for removal at boot.
C1_DeletedBeforeSignal ==
    \A s \in Sessions :
        sent[s] => \/ orig[s] \in {"unlinked", "gone"}
                   \/ orig[s] = "renamed" /\ sched[s]

\* C2: from the signal until it exits, the second-phase process holds an
\* open handle on its done marker.
C2_MarkerHeldFromSignal ==
    \A s \in Sessions :
        (sent[s] /\ SecondAlive(s)) =>
            doneHandle[s] /\ dirs[tempDir[s]].exists /\ dirs[tempDir[s]].marker

\* C3: round trip: the original existed before RunFirstPhase (Init); once the
\* second phase has reached "Phase 2 complete" the original is not at its
\* path, or it is scheduled for removal at boot.
C3_RoundTrip ==
    \A s \in Sessions :
        pc2[s] = "exited" => orig[s] # "present" \/ sched[s]

\* C4: when RunFirstPhase returns after the second-phase process terminated
\* without having signalled, the temp copy and the temp directory are gone.
C4_CrashCleanupRemovesAll ==
    [][\A s \in Sessions :
        (pc1[s] = "wait" /\ pc1'[s] = "returned" /\ SecondDead(s) /\ ~sent[s])
            => ~dirs'[tempDir[s]].exists]_vars

\* C5: the second phase was killed before it signalled and the first phase,
\* waiting on its process handle, has returned: one scanner run from there
\* leaves nothing of the session's temp directory.
C5_ScannerRemovesCrashedDir ==
    \A s \in Sessions :
        (pc2[s] = "killed" /\ ~sent[s] /\ procHandle[s]
         /\ pc1[s] \in {"returned", "exited"} /\ ScannersIdle)
            => ~CleanupResidualTempDirs(dirs, Locked, None, now)[tempDir[s]].exists

\* a directory without done marker whose last write is not older than 5 minutes
YoungNoMarker(d) ==
    dirs[d].exists /\ ~dirs[d].marker /\ ~isOlderThan5Minutes(dirs[d].mtime, now)

\* C6: no scanner step removes a temp directory, or a file in it, that has
\* no done marker and is younger than the staleness threshold.
C6_YoungUnmarkedKept ==
    [][ScannerStep => \A d \in Suffixes : YoungNoMarker(d) => dirs'[d] = dirs[d]]_vars

C6_Witness ==
    \E k \in Scanners :
        /\ pcK[k] = "stale"
        /\ YoungNoMarker(kDir[k])
        /\ Empty(dirs, kDir[k])

\* when the second run takes place: at once, or after more than the
\* staleness threshold
Later == {now, now + threshold + 1}

\* C7: a scanner run that nothing interleaves with, followed by a second run
\* (at once or when every directory has become stale), leaves the disk as
\* the first run left it.
C7_ScanIdempotent ==
    ScannersIdle =>
        \A t2 \in Later :
            LET once == CleanupResidualTempDirs(dirs, Locked, None, now)
            IN CleanupResidualTempDirs(once, Locked, None, t2) = once

\* a session is over and the first run has something to do in what it left
C7_Witness ==
    \E s \in Sessions :
        /\ pc2[s] = "exited" /\ pc1[s] = "exited"
        /\ ScannersIdle
        /\ CleanupResidualTempDirs(dirs, Locked, None, now)[tempDir[s]] # dirs[tempDir[s]]

\* C8: two sessions that are both in progress never use the same temp
\* directory.
InProgress(s) == tempDir[s] # None /\ (pc1[s] \in {"copy", "spawn", "wait"} \/ SecondAlive(s))

C8_DistinctTempDirs ==
    \A s1 \in Sessions : \A s2 \in Sessions \ {s1} :
        (InProgress(s1) /\ InProgress(s2)) => tempDir[s1] # tempDir[s2]

\* C9: while a second-phase process is alive, no scanner step deletes the
\* temp executable, the done marker or the temp directory of its session.
C9_ScannerSparesLiveSession ==
    [][ScannerStep =>
        \A s \in Sessions : SecondAlive(s) => dirs'[tempDir[s]] = dirs[tempDir[s]]]_vars

\* the scanner got as far as deleting in the directory of a live second phase
C9_Witness ==
    \E s \in Sessions : \E k \in Scanners :
        /\ SecondAlive(s)
        /\ kDir[k] = tempDir[s]
        /\ pcK[k] = "rmexe"
        /\ dirs[kDir[k]].exe

\* C10: the step in which RunFirstPhase returns with the completion signal
\* received changes nothing in any temp directory.
C10_NoCleanupAfterSignal ==
    [][\A s \in Sessions :
        (pc1[s] = "wait" /\ pc1'[s] = "returned" /\ signalRcvd'[s]) => dirs' = dirs]_vars

\* returned on the signal, with a temp copy that the crash cleanup would have
\* deleted (the second phase is gone)
C10_Witness ==
    \E s \in Sessions :
        /\ pc1[s] = "returned" /\ signalRcvd[s]
        /\ SecondDead(s)
        /\ dirs[tempDir[s]].exe

\* C11: the second phase finalizes (DeleteOriginalUninstaller on the renamed
\* file, removal of the install directory) only when the first-phase process
\* has terminated.
C11_FinalizeAfterFirstExit ==
    [][\A s \in Sessions :
        (pc2[s] = "final" /\ pc2'[s] = "exited" /\ (renamedPath[s] \/ deleted[s]))
            => FirstExited(s)]_vars

\* the argument starts with the flag, letter case ignored
MatchesFlag(arg, flag) ==
    /\ Len(arg) >= Len(flag)
    /\ \A i \in 1..Len(flag) : ToUpperChar(arg[i]) = ToUpperChar(flag[i])

IsPhaseFlag(arg) == MatchesFlag(arg, secondPhaseFlag) \/ MatchesFlag(arg, firstPhaseWndFlag)

\* C12: what RunFirstPhase forwards after its own two flags is the original
\* argument list, in order and unchanged, without the arguments that start
\* with /SECONDPHASE= or /FIRSTPHASEWND= in any letter case; no forwarded
\* argument is taken for a phase flag.
C12_ForwardedArgsFiltered ==
    handover.pc = "built" =>
        LET forwarded == SubSeq(handover.args, 3, Len(handover.args))
        IN /\ Len(handover.args) >= 2
           /\ forwarded = SelectSeq(handover.osArgs, LAMBDA a : ~IsPhaseFlag(a))
           /\ ~IsSecondPhase(forwarded)

\* arguments in both flags' spellings are dropped and others are forwarded
C12_Witness ==
    /\ handover.pc = "built"
    /\ \E i \in 1..Len(handover.osArgs) : IsPhaseFlag(handover.osArgs[i]) /\ handover.osArgs[i] # ToUpper(handover.osArgs[i])
    /\ Len(handover.args) > 2

\* C13: the copy's GetSecondPhaseConfig returns the path (case preserved) and
\* the window RunFirstPhase put on the command line; on any command line it
\* returns an error when no /SECONDPHASE= argument carries a path or when a
\* /FIRSTPHASEWND= argument carries something that is not a decimal integer.
C13_CommandLineRoundTrip ==
    /\ handover.pc = "parsed" =>
        handover.config = [err |-> "none", OriginalExePath |-> handover.selfPath, FirstPhaseWnd |-> handover.wnd]
    /\ handover.pc = "own" =>
        /\ (\A i \in 1..Len(handover.osArgs) :
                MatchesFlag(handover.osArgs[i], secondPhaseFlag) => Len(handover.osArgs[i]) = Len(secondPhaseFlag))
            => handover.config.err # "none"
        /\ (\E i \in 1..Len(handover.osArgs) :
                /\ MatchesFlag(handover.osArgs[i], firstPhaseWndFlag)
                /\ ~ParseUint(SliceFrom(handover.osArgs[i], Len(firstPhaseWndFlag))).ok)
            => handover.config.err # "none"

\* a path with lower-case letters, a blank and "=" went through, next to
\* forwarded arguments
C13_Witness ==
    /\ handover.pc = "parsed"
    /\ handover.selfPath # ToUpper(handover.selfPath)
    /\ \E i \in 1..Len(handover.selfPath) : handover.selfPath[i] = " "
    /\ Len(handover.childArgs) > 2
    /\ handover.wnd >= 10

\* EnsureElevated has been entered (the process did not call IsElevated)
InEnsureElevated == elevation.pc \in {"exe", "shell", "relaunched", "exited", "returned"}

\* C14: EnsureElevated in an elevated process returns nil at once: no
\* ShellExecute (no prompt), no process started, no exit.
C14_ElevatedReturnsAtOnce ==
    (InEnsureElevated /\ elevation.env.token = "elevated") =>
        elevation.pc = "returned" /\ elevation.ret = "nil" /\ elevation.prompts = 0 /\ elevation.child = <<>>

C14_Witness == elevation.pc = "returned" /\ elevation.env.token = "elevated" /\ elevation.osArgs # <<>>

\* C15: when the prompt was shown and declined, EnsureElevated returns
\* ErrElevationDeclined, and the process has neither exited nor started one.
C15_DeclinedIsDistinct ==
    (elevation.prompts > 0 /\ elevation.env.shell = "cancelled") =>
        elevation.pc = "returned" /\ elevation.ret = "ErrElevationDeclined" /\ elevation.child = <<>>

C15_Witness == elevation.prompts > 0 /\ elevation.env.shell = "cancelled" /\ elevation.env.token = "limited"

\* C16: after an accepted prompt exactly one process was started, and its
\* argument list is the original process's argument list.
C16_RelaunchKeepsArgs ==
    elevation.pc \in {"relaunched", "exited"} => elevation.child = <<elevation.osArgs>>

\* C17: IsElevated answers true exactly when the token was read and its
\* elevation flag is set; a failed query gives false.
C17_IsElevatedConservative ==
    elevation.pc = "answered" =>
        /\ elevation.ret = "true" <=> elevation.env.token = "elevated"
        /\ elevation.env.token \in {"openErr", "infoErr"} => elevation.ret = "false"

C17_Witness == elevation.pc = "answered" /\ elevation.env.token = "infoErr"

CallerElevated == IsElevated([token |-> deElevation.env.priv])

\* C18: from an elevated caller the strategies are attempted in the order
\* shell delegation, scheduled task, borrowed token; each one only after all
\* earlier ones failed, none after one succeeded.
C18_StrategyOrder ==
    CallerElevated =>
        /\ Len(deElevation.tried) <= Len(Strategies)
        /\ deElevation.tried = SubSeq(Strategies, 1, Len(deElevation.tried))
        /\ \A i \in 1..Len(deElevation.tried) : \A j \in 1..(i - 1) : deElevation.env[deElevation.tried[j]] # "ok"
        /\ deElevation.pc = "returned" => deElevation.env[deElevation.tried[Len(deElevation.tried)]] = "ok" \/ Len(deElevation.tried) = Len(Strategies)

\* all three were attempted and the last one succeeded
C18_Witness ==
    CallerElevated /\ deElevation.pc = "returned" /\ deElevation.tried = Strategies /\ deElevation.env.token = "ok"

\* C19: shell delegation unavailable, scheduled task available, elevated
\* caller: LaunchDeElevated returns pid 0 and a nil error.
C19_TaskSuccessWithoutHandle ==
    (CallerElevated /\ deElevation.env.com # "ok" /\ deElevation.env.task = "ok" /\ deElevation.pc = "returned")
        => deElevation.ret = [done |-> TRUE, pid |-> 0, err |-> <<>>]

C19_Witness ==
    CallerElevated /\ deElevation.env.com # "ok" /\ deElevation.env.task = "ok" /\ deElevation.pc = "returned"

\* C20: when every strategy failed, the returned error names the reason of
\* each of the three strategies.
C20_AggregateNamesAll ==
    (CallerElevated /\ deElevation.pc = "returned" /\ \A i \in 1..Len(Strategies) : deElevation.env[Strategies[i]] # "ok")
        => \A i \in 1..Len(Strategies) :
              \E k \in 1..Len(deElevation.ret.err) : deElevation.ret.err[k] = deElevation.env[Strategies[i]]

\* a (pid, err) pair of one of the three shapes; delegated: some strategy
\* that starts the target in another process reported success
OneOutcome(r, delegated) ==
    \/ r.pid > 0 /\ r.err = <<>>
    \/ r.pid = 0 /\ r.err = <<>> /\ delegated
    \/ r.pid = 0 /\ r.err # <<>>

\* the strategy LaunchDeElevated tried last hands the start to another
\* process and reported success
DeDelegated ==
    /\ deElevation.tried # <<>>
    /\ LET last == deElevation.tried[Len(deElevation.tried)]
       IN last \in {"com", "task"} /\ deElevation.env[last] = "ok"

ScheduledTaskTried ==
    \E i \in 1..Len(session.calls) : session.calls[i] = [api |-> "schtasks", ok |-> TRUE]

\* C21: LaunchDeElevated and LaunchAsSessionUser return a pid > 0 with a nil
\* error, or (0, nil) after a delegated start that was reported, or pid 0
\* with an error; never a pid with an error, never (0, nil) otherwise.
C21_OneOutcome ==
    /\ deElevation.pc = "returned" => OneOutcome(deElevation.ret, DeDelegated)
    /\ session.pc = "returned" =>
        OneOutcome(session.ret,
                   \/ deElevation.pc = "returned" /\ deElevation.ret.err = <<>> /\ DeDelegated
                   \/ ScheduledTaskTried /\ session.verified)

\* LaunchDeElevated failed and the scheduled task of the fallback started
\* the target: success without a handle
C21_Witness ==
    /\ session.pc = "returned"
    /\ session.ret = Returned(0, <<>>)
    /\ deElevation.pc = "returned"
    /\ deElevation.ret.err # <<>>
    /\ session.verified

\* C22: a caller that is not the system account never calls a session or
\* token API, also when LaunchDeElevated fails.
C22_NonSystemAvoidsSessionApis ==
    ~isRunningAsSystem(session.account) =>
        \A i \in 1..Len(session.calls) : session.calls[i].api \notin SessionApis

\* C23: after the scheduled-task fallback, success is returned only when the
\* poll saw a process with the target's name; the poll ends with the window,
\* and without such a process the call returns an error.
C23_TaskFallbackVerified ==
    /\ session.clock <= pollTimeout * pollsPerSecond
    /\ session.verified => session.running
    /\ (session.pc = "returned" /\ ScheduledTaskTried /\ session.ret.err = <<>>)
            => session.verified

\* the scheduler reported success, the window passed, no process appeared
C23_Witness ==
    /\ session.pc = "returned"
    /\ ScheduledTaskTried
    /\ session.clock = pollTimeout * pollsPerSecond
    /\ ~session.running
    /\ session.ret.err # <<>>

\* C24: no wait of the launcher blocks for ever: LaunchAsSessionUser returns
\* whatever the helper processes do.
C24_LauncherReturns == <>(session.pc = "returned")

\* the fallback chain of a system-account caller
Preparation ==
    <<"WTSGetActiveConsoleSessionId", "WTSQueryUserToken", "DuplicateTokenEx",
      "CreateEnvironmentBlock">>
Creation ==
    <<"CreateProcessAsUser+BREAKAWAY", "CreateProcessAsUser", "CreateProcessWithTokenW",
      "schtasks">>
Chain == Preparation \o Creation

\* C29: from the system account the calls are made in the order of the chain;
\* a creation step is attempted only when every earlier one failed;
\* LaunchDeElevated is never called.
C29_SystemFallbackChain ==
    isRunningAsSystem(session.account) =>
        /\ Len(session.calls) <= Len(Chain)
        /\ \A i \in 1..Len(session.calls) : session.calls[i].api = Chain[i]
        /\ \A i \in 1..Len(session.calls) : \A j \in 1..(i - 1) :
              j > Len(Preparation) => ~session.calls[j].ok
        /\ deElevation.pc = "idle"

\* all four creation steps were attempted
C29_Witness ==
    /\ isRunningAsSystem(session.account)
    /\ Len(session.calls) = Len(Chain)
    /\ session.pc = "returned"

\* C25: a scanner pass over a directory whose done marker it could open
\* (the marker exists and nobody holds it) ends with the temp executable,
\* the marker and the directory gone.
C25_ScannerPassRemovesAll ==
    [][\A k \in Scanners :
        (kDone[k] /\ pcK[k] \in {"rmexe", "rmrest"} /\ pcK'[k] = "loop")
            => dirs'[kDir[k]] = NoDir]_vars

\* C26: once the second phase has finished and left its temp copy behind,
\* the scanner's runs bring the temp directory to nothing.
C26_LeftoverReconciled ==
    \A s \in Sessions :
        (pc2[s] = "exited" /\ FirstExited(s)) ~> (tempDir[s] # None /\ ~dirs[tempDir[s]].exists)

\* C30: when RunFirstPhase returns an error, the temp directory it created
\* does not exist any more.
C30_ErrorLeavesNothing ==
    [][\A s \in Sessions :
        (pc1[s] # "error" /\ pc1'[s] = "error") => dirs'[tempDir[s]] = NoDir]_vars

\* C27: RunSteps returns the first error met, and nil only when every step
\* of the list was executed without an error.
C27_NilMeansAllRan ==
    (steps.pc = "returned" /\ steps.work = "finished" /\ ~steps.returnCancelled) =>
        /\ steps.ret = "nil" => steps.i = Len(steps.list) /\ steps.execErr = "nil"
        /\ steps.execErr = "err" => steps.ret = "err"

\* the processes whose AcquireSingleInstance returned ok = true and whose
\* release has not been called
Holders == {p \in Procs : instance.pc[p] = "held"}

\* C28: at most one process at a time holds a successful acquisition for
\* the same name.
C28_MutualExclusion == Cardinality(Holders) <= 1

\* C31: in whichever state after the launch the second-phase process dies,
\* the temp copy and the temp directory are afterwards cleaned up by some
\* process (the first phase's crash cleanup or a scanner run).
C31_CrashRecovered ==
    \A s \in Sessions :
        (pc2[s] = "killed") ~> (tempDir[s] # None /\ ~dirs[tempDir[s]].exists)

\* C34: when the scanner could not open the done marker and the directory
\* is older than the staleness threshold, the stale branch removes nothing
\* but an empty directory: a directory that still holds a temp executable or
\* a marker keeps all its contents.
C34_StaleRemovesOnlyEmpty ==
    [][\A k \in Scanners :
        (pcK[k] = "stale" /\ pcK'[k] = "loop") =>
            LET d == kDir[k] IN
            /\ ~Empty(dirs, d) => dirs'[d] = dirs[d]
            /\ dirs'[d] # dirs[d] =>
                    dirs'[d] = NoDir /\ isOlderThan5Minutes(kInfo[k], now)]_vars

\* the stale branch is about to run on an old directory with a temp
\* executable in it that nothing holds
C34_Witness ==
    \E k \in Scanners :
        /\ pcK[k] = "stale"
        /\ isOlderThan5Minutes(kInfo[k], now)
        /\ osRemoveOk(dirs, Locked, kDir[k], "exe")

\* C36: the directory open is a mutex between scanners: two scanner runs
\* never hold the same temp directory open at the same time, so at most one
\* of them goes on to its deletions, and the run whose open is refused
\* leaves the directory and goes to the next one without changing anything.
C36_DirOpenIsMutex ==
    [][\A k \in Scanners : \A d \in Suffixes :
        /\ kDir'[k] = d => \A k2 \in Scanners \ {k} : kDir'[k2] # d
        /\ (/\ pcK[k] = "loop"
            /\ d \in kTodo[k] /\ d \notin kTodo'[k]
            /\ \E k2 \in Scanners \ {k} : kDir[k2] = d)
                => dirs' = dirs /\ kDir'[k] = None /\ pcK'[k] = "loop"]_vars

\* one run is at its deletions in a directory that the other run has
\* reached in its list
C36_Witness ==
    \E k \in Scanners : \E k2 \in Scanners \ {k} :
        /\ kDir[k] # None /\ pcK[k] \in {"rmexe", "rmrest"}
        /\ pcK[k2] = "loop" /\ kTodo[k2] # {} /\ Min(kTodo[k2]) = kDir[k]

\* the directory handed to tryDeleteUninstallDir is the one the calling
\* process runs from
OwnDir ==
    /\ residual.pc \in InCall \cup {"back"}
    /\ EqualFold(filepathJoin(residual.before.name, tempExeName), residual.selfExe)

\* C32: tryDeleteUninstallDir changes nothing in the directory whose temp
\* executable path equals, letter case ignored, the calling process's own
\* executable path.
C32_OwnDirSkipped ==
    OwnDir => residual.dir = residual.before /\ residual.pc \in {"self", "back"}

\* the call has returned for the own directory, whose path is written
\* differently in the two strings and whose temp executable exists
C32_Witness ==
    /\ OwnDir
    /\ residual.pc = "back"
    /\ filepathJoin(residual.before.name, tempExeName) # residual.selfExe
    /\ residual.before.kind = "dir" /\ residual.before.exe /\ residual.before.marker

\* C33: the scanner deletes nothing through a name that is a reparse point
\* or not a directory: neither the entry nor a file reached through it is
\* different when tryDeleteUninstallDir returns, and the call never gets as
\* far as the marker open.
C33_NotADirUntouched ==
    (residual.pc \in InCall \cup {"back"} /\ residual.before.kind # "dir") =>
        /\ residual.dir = residual.before
        /\ residual.pc \in {"self", "open", "attrs", "back"}

\* the call has returned for a junction to a directory that holds a temp
\* executable and a marker, and it was not the caller's own
C33_Witness ==
    /\ residual.pc = "back"
    /\ residual.before.kind = "reparse"
    /\ residual.before.exe /\ residual.before.marker
    /\ ~OwnDir

\* C35: the scan is time-boxed: no directory is handed to
\* tryDeleteUninstallDir once the deadline has passed, and the function
\* returns nil.
C35_NoCallAfterDeadline ==
    [][/\ (residual.pc = "loop" /\ residual'.pc = "self") => ~residual.expired
       /\ residual'.pc = "returned" => residual'.ret = "nil"]_vars

\* seq is the beginning of full
IsPrefix(seq, full) == Len(seq) <= Len(full) /\ SubSeq(full, 1, Len(seq)) = seq

\* C37: ReadNewLines delivers every complete line exactly once and in
\* order: what the calls have returned so far is always a beginning of what
\* was written, a read that follows the last write has returned all of it,
\* and a line of which only a part is in the file is not returned.
C37_EachLineOnceInOrder ==
    /\ IsPrefix(progress.out, progress.written)
    /\ progress.fresh => progress.out = progress.written

\* C38: RunFirstPhase runs its crash cleanup only when the second-phase
\* process has terminated; while that process is alive and has not
\* signalled, RunFirstPhase stays in its wait.
C38_CrashCleanupOnlyAfterDeath ==
    [][\A s \in Sessions :
        /\ (pc1[s] = "wait" /\ pc1'[s] = "returned" /\ ~signalRcvd'[s]) => SecondDead(s)
        /\ (pc1[s] = "wait" /\ SecondAlive(s) /\ ~sent[s]) => pc1'[s] = "wait"]_vars

C40_FallbackSuccessMeansStarted ==
    (session.pc = "returned" /\ ScheduledTaskTried /\ session.ret.err = <<>>)
        => session.started

====
